---- MODULE Spec2Model ----
(***************************************************************************)
(* Model of the sorting benchmark of src/ordenamiento.py                   *)
(* (AcademicSortingAnalyzer): the key extractor, the twelve sorting        *)
(* algorithms and run_all_algorithms.                                      *)
(*                                                                         *)
(* Strings are sequences of code points, so that lower(), strip() and the  *)
(* lexicographic comparison of Python's str are computed, not assumed.     *)
(* Python lists keep their 0-based indices: At(arr, i) is arr[i].          *)
(***************************************************************************)
EXTENDS Integers, Sequences, FiniteSets, TLC

\* ------------------------------------------------------------------ bounds

\* Longest record sequence (rows of the loaded CSV) that is explored.
MaxRecords == 3

\* Largest number of algorithms that raise during one run_all_algorithms.
MaxFailures == 1

\* Most pieces a publication_date is made of.
MaxTokens == 3

\* Largest number of authors asked of get_top_authors.
MaxTop == 3

\* The most rows of a file that is cleaned.
MaxCleanRecords == 4

\* The most rows of a file on which comb_sort is followed pass by pass.
MaxCombRecords == 6

\* The most rows of a file on which the other methods are followed step by step.
MaxStepRecords == 5

\* The most results the search reports for a query (totalItems).
MaxItems == 3

\* The greatest batch_size scrape_all is called with.
MaxBatch == 2

\* The nested calls the interpreter allows a recursion (sys.getrecursionlimit(),
\* 1000 unless a program raises it, and this one never does), scaled to the
\* inputs of the model: where the recursions are followed call by call, an
\* input of MaxRecords rows stands for one of more rows than the limit.
RecursionLimit == 2

\* ----------------------------------------------------------------- strings

\* pandas' missing value (NaN) of a text column.
NaN == <<-1>>

IsNa(x) == x = NaN

IsDigit(c) == c \in 48..57

IsWordChar(c) == IsDigit(c) \/ c \in 65..90 \/ c \in 97..122 \/ c = 95

IsSpace(c) == c \in {9, 10, 11, 12, 13, 32}

Min(S) == CHOOSE x \in S : \A y \in S : x <= y

Max(S) == CHOOSE x \in S : \A y \in S : x >= y

\* str.lower() on ASCII text.
Lower(s) == [i \in 1..Len(s) |-> IF s[i] \in 65..90 THEN s[i] + 32 ELSE s[i]]

\* str.strip(): leading and trailing whitespace removed.
RECURSIVE FirstKept(_, _)
FirstKept(s, i) ==
    IF i > Len(s) \/ ~IsSpace(s[i]) THEN i ELSE FirstKept(s, i + 1)

RECURSIVE LastKept(_, _)
LastKept(s, i) ==
    IF i < 1 \/ ~IsSpace(s[i]) THEN i ELSE LastKept(s, i - 1)

Strip(s) ==
    IF FirstKept(s, 1) > Len(s)
    THEN <<>>
    ELSE SubSeq(s, FirstKept(s, 1), LastKept(s, Len(s)))

\* Python's str < str: code points, lexicographic, a proper prefix is smaller.
RECURSIVE StrLessFrom(_, _, _)
StrLessFrom(s, t, i) ==
    IF i > Len(t)
    THEN FALSE
    ELSE IF i > Len(s)
         THEN TRUE
         ELSE IF s[i] = t[i] THEN StrLessFrom(s, t, i + 1) ELSE s[i] < t[i]

StrLess(s, t) == StrLessFrom(s, t, 1)

\* ----------------------------------------------------------- key extractor

\* \b of the regular expression, at the gap before position p of s.
WordBoundary(s, p) ==
    LET before == p - 1 >= 1 /\ p - 1 <= Len(s) /\ IsWordChar(s[p - 1])
        after  == p >= 1 /\ p <= Len(s) /\ IsWordChar(s[p])
    IN  before # after

\* The regular expression without its two \b: (19|20)\d{2} anywhere.
YearMatchAnywhere(s, p) ==
    /\ p + 3 <= Len(s)
    /\ \/ (s[p] = 49 /\ s[p + 1] = 57)
       \/ (s[p] = 50 /\ s[p + 1] = 48)
    /\ IsDigit(s[p + 2])
    /\ IsDigit(s[p + 3])

\* re.search(r'\b(19|20)\d{2}\b') matches at position p of s.
YearMatchAt(s, p) ==
    /\ p + 3 <= Len(s)
    /\ WordBoundary(s, p)
    /\ \/ (s[p] = 49 /\ s[p + 1] = 57)
       \/ (s[p] = 50 /\ s[p + 1] = 48)
    /\ IsDigit(s[p + 2])
    /\ IsDigit(s[p + 3])
    /\ WordBoundary(s, p + 4)

\* int() of four decimal digits.
DigitsToInt(s, p) ==
    (s[p] - 48) * 1000 + (s[p + 1] - 48) * 100 + (s[p + 2] - 48) * 10 + (s[p + 3] - 48)

\* _extract_year: 0 for a missing or empty date, else the first match, else 0.
extract_year(date_str) ==
    IF IsNa(date_str) \/ date_str = <<>>
    THEN 0
    ELSE LET found == {p \in 1..Len(date_str) : YearMatchAt(date_str, p)}
         IN  IF found = {} THEN 0 ELSE DigitsToInt(date_str, Min(found))

\* _prepare_data, one row: title_clean = fillna(''), year = _extract_year.
PrepareRow(raw) ==
    [title            |-> raw.title,
     publication_date |-> raw.publication_date,
     title_clean      |-> IF IsNa(raw.title) THEN <<>> ELSE raw.title,
     year             |-> extract_year(raw.publication_date)]

\* load_data: the frame after read_csv and _prepare_data (an empty frame is
\* left as it is).
load_data(rows) == [i \in 1..Len(rows) |-> PrepareRow(rows[i])]

\* _create_sortable_data that numbers the rows from 1: enumerate(..., 1).
RECURSIVE SortableRowsFromOne(_, _)
SortableRowsFromOne(frame, n) ==
    IF n = 0
    THEN <<>>
    ELSE Append(SortableRowsFromOne(frame, n - 1),
                <<frame[n].year, Strip(Lower(frame[n].title_clean)), n>>)

\* _create_sortable_data, the loop over the first n rows: (year, lower-cased
\* trimmed title, idx) is appended per row, idx the row's label in the
\* RangeIndex 0..n-1.
RECURSIVE SortableRows(_, _)
SortableRows(frame, n) ==
    IF n = 0
    THEN <<>>
    ELSE Append(SortableRows(frame, n - 1),
                <<frame[n].year, Strip(Lower(frame[n].title_clean)), n - 1>>)

\* _create_sortable_data: an empty frame gives the empty list.
create_sortable_data(frame) ==
    IF Len(frame) = 0 THEN <<>> ELSE SortableRows(frame, Len(frame))

\* DataFrame.iloc[i]: position i, a negative i counted from the end.
Iloc(frame, i) == IF i >= 0 THEN frame[i + 1] ELSE frame[Len(frame) + i + 1]

\* _build_result_dataframe: the rows of the frame at the third components.
build_result_dataframe(frame, sorted_list) ==
    IF Len(frame) = 0
    THEN <<>>
    ELSE LET items == SelectSeq(sorted_list, LAMBDA item : Len(item) > 2)
         IN  [i \in 1..Len(items) |-> Iloc(frame, items[i][3])]

\* --------------------------------------------------------------- comparison

\* A comparison of keys that leaves the index out.
TupleLessNoIndex(a, b) ==
    \/ a[1] < b[1]
    \/ a[1] = b[1] /\ StrLess(a[2], b[2])

\* Python's tuple < on (year, title, idx) keys: the first differing component.
TupleLess(a, b) ==
    \/ a[1] < b[1]
    \/ a[1] = b[1] /\ StrLess(a[2], b[2])
    \/ a[1] = b[1] /\ a[2] = b[2] /\ a[3] < b[3]

\* a <= b on tuples (the order is total).
TupleLessEq(a, b) == ~TupleLess(b, a)

\* arr[i] of a Python list.
At(arr, i) == arr[i + 1]

\* arr[i], arr[j] = arr[j], arr[i]
Swap(arr, i, j) == [arr EXCEPT ![i + 1] = arr[j + 1], ![j + 1] = arr[i + 1]]

\* The key functions handed to sorted() and list.sort(): "year_title" is
\* lambda x: (x[0], x[1]), "title" is lambda x: x[1].
KeyLess(mode, a, b) ==
    IF mode = "title"
    THEN StrLess(a[2], b[2])
    ELSE a[1] < b[1] \/ (a[1] = b[1] /\ StrLess(a[2], b[2]))

\* sorted(s, key=...) and list.sort(key=...): ascending by key and stable, an
\* element goes after every element whose key is not greater.
RECURSIVE PySorted(_, _)
PySorted(s, mode) ==
    IF Len(s) <= 1
    THEN s
    ELSE LET init == PySorted(SubSeq(s, 1, Len(s) - 1), mode)
             x    == s[Len(s)]
             p    == Cardinality({i \in 1..Len(init) : ~KeyLess(mode, x, init[i])})
         IN  SubSeq(init, 1, p) \o <<x>> \o SubSeq(init, p + 1, Len(init))

\* --------------------------------------------------------------- algorithms

tim_sort(data) == PySorted(data, "year_title")

\* comb_sort with the shrink factor 2.
ShrinkGapByTwo(gap) == gap \div 2

\* int(gap / shrink), shrink = 1.3
ShrinkGap(gap) == (gap * 10) \div 13

\* comb_sort, the inner while loop from position i: <<data, sorted_flag>>.
RECURSIVE CombPass(_, _, _, _)
CombPass(data, gap, i, sorted_flag) ==
    IF i + gap < Len(data)
    THEN IF TupleLess(At(data, i + gap), At(data, i))
         THEN CombPass(Swap(data, i, i + gap), gap, i + 1, FALSE)
         ELSE CombPass(data, gap, i + 1, sorted_flag)
    ELSE <<data, sorted_flag>>

\* comb_sort, one iteration of the outer while loop: <<data, gap, sorted_flag>>.
CombIteration(data, gap) ==
    LET shrunk == ShrinkGap(gap)
        g      == IF shrunk <= 1 THEN 1 ELSE shrunk
        r      == CombPass(data, g, 0, shrunk <= 1)
    IN  <<r[1], g, r[2]>>

RECURSIVE CombLoop(_, _, _)
CombLoop(data, gap, sorted_flag) ==
    IF sorted_flag
    THEN data
    ELSE LET r == CombIteration(data, gap)
         IN  CombLoop(r[1], r[2], r[3])

comb_sort(data) == CombLoop(data, Len(data), FALSE)

\* SelectMin with the comparison turned round: the index of the maximum.
RECURSIVE SelectMax(_, _, _)
SelectMax(data, j, min_idx) ==
    IF j < Len(data)
    THEN SelectMax(data, j + 1,
                   IF TupleLess(At(data, min_idx), At(data, j)) THEN j ELSE min_idx)
    ELSE min_idx

\* selection_sort, the inner loop from j: the index of the minimum.
RECURSIVE SelectMin(_, _, _)
SelectMin(data, j, min_idx) ==
    IF j < Len(data)
    THEN SelectMin(data, j + 1,
                   IF TupleLess(At(data, j), At(data, min_idx)) THEN j ELSE min_idx)
    ELSE min_idx

RECURSIVE SelectionLoop(_, _)
SelectionLoop(data, i) ==
    IF i < Len(data)
    THEN SelectionLoop(Swap(data, i, SelectMin(data, i + 1, i)), i + 1)
    ELSE data

selection_sort(data) == SelectionLoop(data, 0)

\* TreeNode: <<val, left, right>>; None is the empty tuple.
Nil == <<>>

TreeNode(val) == <<val, Nil, Nil>>

RECURSIVE insert_tree_node(_, _)
insert_tree_node(root, val) ==
    IF Len(root) = 0
    THEN TreeNode(val)
    ELSE IF TupleLess(val, root[1])
         THEN <<root[1], insert_tree_node(root[2], val), root[3]>>
         ELSE <<root[1], root[2], insert_tree_node(root[3], val)>>

RECURSIVE inorder_traversal(_, _)
inorder_traversal(root, result) ==
    IF Len(root) = 0
    THEN result
    ELSE inorder_traversal(root[3],
             Append(inorder_traversal(root[2], result), root[1]))

\* tree_sort, the insertion loop from the k-th item.
RECURSIVE BuildTree(_, _, _)
BuildTree(data, k, root) ==
    IF k > Len(data)
    THEN root
    ELSE BuildTree(data, k + 1, insert_tree_node(root, data[k]))

tree_sort(data) == inorder_traversal(BuildTree(data, 1, Nil), <<>>)

\* The outcome of sorting work that raises instead of returning a list.
Raised == << <<-1>> >>

IsRaised(outcome) == outcome = Raised

\* The years of a key list.
Years(data) == {data[i][1] : i \in 1..Len(data)}

\* pigeonhole_sort: the hole of index h after the distribution loop.
Pigeonhole(data, min_year, h) ==
    SelectSeq(data, LAMBDA item : item[1] - min_year = h)

\* pigeonhole_sort, the loop over the holes lo..hi: each sorted by title and
\* appended. The stretch is halved, and a stretch of empty holes appends
\* nothing.
RECURSIVE DrainHoles(_, _, _, _)
DrainHoles(data, min_year, lo, hi) ==
    IF \A i \in 1..Len(data) : (data[i][1] - min_year) \notin lo..hi
    THEN <<>>
    ELSE IF lo = hi
         THEN PySorted(Pigeonhole(data, min_year, lo), "title")
         ELSE LET mid == (lo + hi) \div 2
              IN  DrainHoles(data, min_year, lo, mid)
                      \o DrainHoles(data, min_year, mid + 1, hi)

\* pigeonhole_sort after its emptiness check: min() and max() of an empty
\* list raise ValueError.
PigeonholeBody(data) ==
    IF Years(data) = {}
    THEN Raised
    ELSE LET min_year    == Min(Years(data))
             max_year    == Max(Years(data))
             range_years == max_year - min_year + 1
         IN  DrainHoles(data, min_year, 0, range_years - 1)

\* pigeonhole_sort without its emptiness check.
pigeonhole_sort_unguarded(data) == PigeonholeBody(data)

\* pigeonhole_sort: an empty key list returns at once.
pigeonhole_sort(data) ==
    IF Len(data) = 0 THEN <<>> ELSE PigeonholeBody(data)

\* bucket_sort, the loop over sorted(years).
RECURSIVE DrainBuckets(_, _)
DrainBuckets(data, years) ==
    IF years = {}
    THEN <<>>
    ELSE LET year   == Min(years)
             bucket == SelectSeq(data, LAMBDA item : item[1] = year)
         IN  PySorted(bucket, "title") \o DrainBuckets(data, years \ {year})

bucket_sort(data) ==
    IF Len(data) = 0 THEN <<>> ELSE DrainBuckets(data, Years(data))

\* _quick_sort_partition, the for loop from j: <<arr, i>>.
RECURSIVE PartitionLoop(_, _, _, _, _)
PartitionLoop(arr, j, high, i, pivot) ==
    IF j < high
    THEN IF TupleLessEq(At(arr, j), pivot)
         THEN PartitionLoop(Swap(arr, i + 1, j), j + 1, high, i + 1, pivot)
         ELSE PartitionLoop(arr, j + 1, high, i, pivot)
    ELSE <<arr, i>>

\* _quick_sort_partition without its last swap, which puts the pivot in place.
quick_sort_partition_no_swap(arr, low, high) ==
    LET r == PartitionLoop(arr, low, high, low - 1, At(arr, high))
    IN  <<r[1], r[2] + 1>>

\* _quick_sort_partition: <<arr, returned index>>.
quick_sort_partition(arr, low, high) ==
    LET r == PartitionLoop(arr, low, high, low - 1, At(arr, high))
    IN  <<Swap(r[1], r[2] + 1, high), r[2] + 1>>

RECURSIVE quick_sort_recursive(_, _, _)
quick_sort_recursive(arr, low, high) ==
    IF low < high
    THEN LET p  == quick_sort_partition(arr, low, high)
             a1 == quick_sort_recursive(p[1], low, p[2] - 1)
         IN  quick_sort_recursive(a1, p[2] + 1, high)
    ELSE arr

quick_sort(data) == quick_sort_recursive(data, 0, Len(data) - 1)

\* heapify that never looks at the right child.
RECURSIVE heapify_left_only(_, _, _)
heapify_left_only(arr, n, i) ==
    LET left    == 2 * i + 1
        largest == IF left < n /\ TupleLess(At(arr, i), At(arr, left))
                   THEN left ELSE i
    IN  IF largest # i
        THEN heapify_left_only(Swap(arr, i, largest), n, largest)
        ELSE arr

RECURSIVE heapify(_, _, _)
heapify(arr, n, i) ==
    LET left     == 2 * i + 1
        right    == 2 * i + 2
        largest1 == IF left < n /\ TupleLess(At(arr, i), At(arr, left))
                    THEN left ELSE i
        largest  == IF right < n /\ TupleLess(At(arr, largest1), At(arr, right))
                    THEN right ELSE largest1
    IN  IF largest # i
        THEN heapify(Swap(arr, i, largest), n, largest)
        ELSE arr

\* heap_sort: for i in range(n // 2 - 1, -1, -1)
RECURSIVE BuildHeap(_, _)
BuildHeap(arr, i) ==
    IF i >= 0 THEN BuildHeap(heapify(arr, Len(arr), i), i - 1) ELSE arr

\* heap_sort: for i in range(n - 1, 0, -1)
RECURSIVE ExtractLoop(_, _)
ExtractLoop(arr, i) ==
    IF i > 0 THEN ExtractLoop(heapify(Swap(arr, 0, i), i, 0), i - 1) ELSE arr

heap_sort(data) ==
    ExtractLoop(BuildHeap(data, Len(data) \div 2 - 1), Len(data) - 1)

\* A padding entry with a year that records can have: (2000, 'zzzzz', -1).
max_item_2000 == <<2000, <<122, 122, 122, 122, 122>>, -1>>

\* The padding entry of bitonic_sort: (9999, 'zzzzz', -1).
max_item == <<9999, <<122, 122, 122, 122, 122>>, -1>>

\* int.bit_length(): of the absolute value.
RECURSIVE BitLength(_)
BitLength(x) ==
    LET a == IF x < 0 THEN -x ELSE x
    IN  IF a = 0 THEN 0 ELSE 1 + BitLength(a \div 2)

\* 1 << (n - 1).bit_length()
NextPowerOf2(n) == 2 ^ BitLength(n - 1)

\* while len(data) < next_power_of_2: data.append(max_item)
RECURSIVE Pad(_, _)
Pad(data, size) ==
    IF Len(data) < size THEN Pad(Append(data, max_item), size) ELSE data

\* _bitonic_merge, the for loop from i up to hi = low + k.
RECURSIVE CompareSwapLoop(_, _, _, _, _)
CompareSwapLoop(arr, i, hi, k, up) ==
    IF i < hi
    THEN CompareSwapLoop(
             IF TupleLess(At(arr, i + k), At(arr, i)) = up
             THEN Swap(arr, i, i + k) ELSE arr,
             i + 1, hi, k, up)
    ELSE arr

RECURSIVE bitonic_merge(_, _, _, _)
bitonic_merge(arr, low, cnt, up) ==
    IF cnt > 1
    THEN LET k  == cnt \div 2
             a1 == CompareSwapLoop(arr, low, low + k, k, up)
             a2 == bitonic_merge(a1, low, k, up)
         IN  bitonic_merge(a2, low + k, k, up)
    ELSE arr

RECURSIVE bitonic_sort_recursive(_, _, _, _)
bitonic_sort_recursive(arr, low, cnt, up) ==
    IF cnt > 1
    THEN LET k  == cnt \div 2
             a1 == bitonic_sort_recursive(arr, low, k, TRUE)
             a2 == bitonic_sort_recursive(a1, low + k, k, FALSE)
         IN  bitonic_merge(a2, low, cnt, up)
    ELSE arr

\* bitonic_sort: the padded list after the network has run.
BitonicNetwork(data) ==
    LET padded == Pad(data, NextPowerOf2(Len(data)))
    IN  bitonic_sort_recursive(padded, 0, Len(padded), TRUE)

\* bitonic_sort without data = data[:n].
bitonic_sort_untrimmed(data) == BitonicNetwork(data)

\* bitonic_sort: data = data[:n] after the network.
bitonic_sort(data) == SubSeq(BitonicNetwork(data), 1, Len(data))

\* gnome_sort: index == 0 or data[index] >= data[index - 1]
GnomeInOrder(data, index) ==
    index = 0 \/ TupleLessEq(At(data, index - 1), At(data, index))

RECURSIVE GnomeLoop(_, _)
GnomeLoop(data, index) ==
    IF index < Len(data)
    THEN IF GnomeInOrder(data, index)
         THEN GnomeLoop(data, index + 1)
         ELSE GnomeLoop(Swap(data, index, index - 1), index - 1)
    ELSE data

gnome_sort(data) == GnomeLoop(data, 0)

\* _binary_search_insertion that answers start whenever start == end.
RECURSIVE binary_search_insertion_low(_, _, _, _)
binary_search_insertion_low(arr, val, start, end) ==
    IF start >= end
    THEN start
    ELSE LET mid == (start + end) \div 2
         IN  IF TupleLess(At(arr, mid), val)
             THEN binary_search_insertion_low(arr, val, mid + 1, end)
             ELSE IF TupleLess(val, At(arr, mid))
                  THEN binary_search_insertion_low(arr, val, start, mid - 1)
                  ELSE mid

RECURSIVE binary_search_insertion(_, _, _, _)
binary_search_insertion(arr, val, start, end) ==
    IF start = end
    THEN IF TupleLess(val, At(arr, start)) THEN start ELSE start + 1
    ELSE IF start > end
         THEN start
         ELSE LET mid == (start + end) \div 2
              IN  IF TupleLess(At(arr, mid), val)
                  THEN binary_search_insertion(arr, val, mid + 1, end)
                  ELSE IF TupleLess(val, At(arr, mid))
                       THEN binary_search_insertion(arr, val, start, mid - 1)
                       ELSE mid

\* binary_insertion_sort: for j in range(i - 1, pos - 1, -1): data[j + 1] = data[j]
RECURSIVE ShiftRight(_, _, _)
ShiftRight(data, j, pos) ==
    IF j >= pos
    THEN ShiftRight([data EXCEPT ![j + 2] = data[j + 1]], j - 1, pos)
    ELSE data

\* InsertionStep without its last statement, data[pos] = key.
InsertionStepNoStore(data, i) ==
    LET key == At(data, i)
        pos == binary_search_insertion(data, key, 0, i - 1)
    IN  ShiftRight(data, i - 1, pos)

\* binary_insertion_sort, one iteration of the for loop over i.
InsertionStep(data, i) ==
    LET key     == At(data, i)
        pos     == binary_search_insertion(data, key, 0, i - 1)
        shifted == ShiftRight(data, i - 1, pos)
    IN  [shifted EXCEPT ![pos + 1] = key]

RECURSIVE InsertionLoop(_, _)
InsertionLoop(data, i) ==
    IF i < Len(data) THEN InsertionLoop(InsertionStep(data, i), i + 1) ELSE data

binary_insertion_sort(data) == InsertionLoop(data, 1)

\* (arr[i][0] // exp) % 10
RadixDigit(item, exp) == (item[1] \div exp) % 10

\* _counting_sort_for_radix, the placing loop from i down to 0; count[d] is
\* the 0-based end of digit d's block in output.
RECURSIVE PlaceLoop(_, _, _, _, _)
PlaceLoop(arr, exp, i, count, output) ==
    IF i >= 0
    THEN LET index == RadixDigit(At(arr, i), exp)
         IN  PlaceLoop(arr, exp, i - 1,
                       [count EXCEPT ![index] = count[index] - 1],
                       [output EXCEPT ![count[index]] = At(arr, i)])
    ELSE output

\* [None] * n
RECURSIVE NoneList(_)
NoneList(n) == IF n = 0 THEN <<>> ELSE Append(NoneList(n - 1), <<>>)

\* _counting_sort_for_radix that places the items from the first to the last.
counting_sort_for_radix_forward(arr, exp) ==
    LET n      == Len(arr)
        count  == [d \in 0..9 |->
                      Cardinality({i \in 1..n : RadixDigit(arr[i], exp) <= d})]
        output == NoneList(n)
    IN  PlaceLoop([i \in 1..n |-> arr[n + 1 - i]], exp, n - 1, count, output)

\* _counting_sort_for_radix: the occurrences counted and summed up, then the
\* items placed from the last to the first.
counting_sort_for_radix(arr, exp) ==
    LET n      == Len(arr)
        count  == [d \in 0..9 |->
                      Cardinality({i \in 1..n : RadixDigit(arr[i], exp) <= d})]
        output == NoneList(n)
    IN  PlaceLoop(arr, exp, n - 1, count, output)

\* radix_sort: while max_year // exp > 0
RECURSIVE RadixPasses(_, _, _)
RadixPasses(data, max_year, exp) ==
    IF max_year \div exp > 0
    THEN RadixPasses(counting_sort_for_radix(data, exp), max_year, exp * 10)
    ELSE data

\* current_year = None
NoYear == -1

\* data[a:b] sorted by title in place.
SortSlice(data, a, b) ==
    SubSeq(data, 1, a)
        \o PySorted(SubSeq(data, a + 1, b), "title")
        \o SubSeq(data, b + 1, Len(data))

\* radix_sort, the loop over i that sorts each finished year group:
\* <<data, year_group_start>>.
RECURSIVE GroupLoop(_, _, _, _)
GroupLoop(data, i, current_year, year_group_start) ==
    IF i < Len(data)
    THEN IF At(data, i)[1] # current_year
         THEN GroupLoop(IF current_year # NoYear
                        THEN SortSlice(data, year_group_start, i)
                        ELSE data,
                        i + 1, At(data, i)[1], i)
         ELSE GroupLoop(data, i + 1, current_year, year_group_start)
    ELSE <<data, year_group_start>>

radix_sort(data) ==
    IF Len(data) = 0
    THEN <<>>
    ELSE LET max_year == Max(Years(data))
             passed   == RadixPasses(data, max_year, 1)
             grouped  == GroupLoop(passed, 0, NoYear, 0)
         IN  IF Len(grouped[1]) > grouped[2]
             THEN SortSlice(grouped[1], grouped[2], Len(grouped[1]))
             ELSE grouped[1]

\* ------------------------------------------------------ run_all_algorithms

\* The registry of run_all_algorithms, in its order.
Algorithms ==
    <<"TimSort", "CombSort", "SelectionSort", "TreeSort", "PigeonholeSort",
      "BucketSort", "QuickSort", "HeapSort", "BitonicSort", "GnomeSort",
      "BinaryInsertionSort", "RadixSort">>

AlgorithmNames == {Algorithms[i] : i \in 1..Len(Algorithms)}

\* The timed part of the method registered under name: from the key list to
\* the list handed to _build_result_dataframe.
SortWork(name, data) ==
    CASE name = "TimSort"             -> tim_sort(data)
      [] name = "CombSort"            -> comb_sort(data)
      [] name = "SelectionSort"       -> selection_sort(data)
      [] name = "TreeSort"            -> tree_sort(data)
      [] name = "PigeonholeSort"      -> pigeonhole_sort(data)
      [] name = "BucketSort"          -> bucket_sort(data)
      [] name = "QuickSort"           -> quick_sort(data)
      [] name = "HeapSort"            -> heap_sort(data)
      [] name = "BitonicSort"         -> bitonic_sort(data)
      [] name = "GnomeSort"           -> gnome_sort(data)
      [] name = "BinaryInsertionSort" -> binary_insertion_sort(data)
      [] name = "RadixSort"           -> radix_sort(data)

\* A method that reads start_time before it creates its key list.
MethodBodyTimerFirst(name) == <<"start", "create", "sort", "stop", "build">>

\* The statements of a sorting method, in the order of its source: the key
\* list is created, the timer is read, the list is sorted, the timer is read
\* again, the result frame is built and returned. All twelve methods have
\* this shape.
MethodBody(name) == <<"create", "start", "sort", "stop", "build">>

\* pigeonhole_sort, bucket_sort and radix_sort return self.df.copy() instead
\* of calling _build_result_dataframe when the key list is empty.
ReturnsCopy(name, data) ==
    name \in {"PigeonholeSort", "BucketSort", "RadixSort"} /\ Len(data) = 0

\* float('inf'), the time recorded for an algorithm that raised; it exceeds
\* every reading of the clock.
Infinity == 1000000

\* The None recorded in place of the frame of an algorithm that raised.
None == <<[none |-> TRUE]>>

\* The rows a CSV file may hold: (title, publication_date).
RecordPool ==
    {[title            |-> <<90, 101, 98, 114, 97, 32, 83, 116, 117, 100, 121>>,
      publication_date |-> <<50, 48, 50, 48>>],
     [title            |-> <<65, 112, 112, 108, 101, 32, 83, 116, 117, 100, 121>>,
      publication_date |-> <<50, 48, 49, 57>>],
     [title            |-> <<77, 97, 110, 103, 111, 32, 83, 116, 117, 100, 121>>,
      publication_date |-> <<50, 48, 49, 57>>],
     [title            |-> NaN,
      publication_date |-> NaN]}

\* The CSV files: every sequence of at most MaxRecords rows.
InputFiles == UNION {[1..n -> RecordPool] : n \in 0..MaxRecords}

\* No loop is being followed.
NoLocals == [method |-> "none"]

VARIABLES
    df,           \* self.df, the loaded frame
    pc,           \* run_all_algorithms: "idle", "loop", "done"
    k,            \* position of the for loop in the registry
    ip,           \* next statement of the running method, 0 outside a method
    data,         \* the method's local key list
    sorted_data,  \* the list handed to _build_result_dataframe
    start_time,   \* the method's local start_time
    end_time,     \* the method's local end_time
    timing,       \* between the reading of start_time and that of end_time
    now,          \* time.perf_counter()
    results,      \* the dict run_all_algorithms fills and returns
    calls,        \* how often each registered method has been called
    extractions,  \* how often _create_sortable_data has run
    builds,       \* how often a result frame has been built
    failures,     \* how many forced errors have been raised
    locals        \* the local variables of a loop that is followed step by step

\* The state of the benchmark run.
bench ==
    <<df, pc, k, ip, data, sorted_data, start_time, end_time, timing, now,
      results, calls, extractions, builds, failures, locals>>

\* The operations that are followed on their own, outside a benchmark run.
VARIABLES
    side,         \* where the operation is: "rest", "called", ..., "returned"
    date_str,     \* _extract_year: its argument
    year,         \* _extract_year: what it returned
    authors,      \* get_top_authors: the column self.df['authors']
    top_n,        \* get_top_authors: its argument
    top_authors,  \* get_top_authors: the rows (Autor, Apariciones) it returned
    table,        \* generate_complete_report: its local results
    chart,        \* create_time_comparison_chart: the bars (name, ms) it drew
    exported,     \* save_sorted_results: the frames written, by file name
    times_report, \* generate_complete_report: the lines of the times report
    df_original,  \* DataCleaner: self.df_original
    df_clean,     \* DataCleaner: self.df_clean
    kept,         \* clean_data: the index of df_work before reset_index
    duplicate_info, \* DataCleaner: self.duplicate_info
    cleaning_stats, \* DataCleaner: self.cleaning_stats
    removal_info  \* create_removal_info_column: the column it adds

yearVars == <<date_str, year>>

authorVars == <<authors, top_n, top_authors>>

\* get_top_authors is not being followed.
AuthorRest == authors = <<>> /\ top_n = 0 /\ top_authors = <<>>

\* _extract_year is not being followed.
YearRest == date_str = NaN /\ year = 0

reportVars == <<table, chart, exported, times_report>>

\* generate_complete_report is not being followed.
ReportRest == table = <<>> /\ chart = <<>> /\ exported = <<>> /\ times_report = <<>>

cleanVars == <<df_original, df_clean, kept, duplicate_info, cleaning_stats, removal_info>>

\* The statistics of a DataCleaner whose load_data has not recorded the
\* number of records.
InitialStatsUnset(count) ==
    [original_count |-> 0, clean_count |-> 0, duplicates_removed |-> 0,
     empty_titles_removed |-> 0, invalid_records_removed |-> 0]

\* The statistics of a DataCleaner that has loaded count records.
InitialStats(count) ==
    [original_count |-> count, clean_count |-> 0, duplicates_removed |-> 0,
     empty_titles_removed |-> 0, invalid_records_removed |-> 0]

\* No DataCleaner is being followed.
CleanRest ==
    /\ df_original = <<>>
    /\ df_clean = <<>>
    /\ kept = <<>>
    /\ duplicate_info = <<>>
    /\ cleaning_stats = InitialStats(0)
    /\ removal_info = <<>>

\* The state of the operations that are followed on their own.
aside == <<side, yearVars, authorVars, reportVars, cleanVars>>

\* None of them is being followed.
AsideRest == side = "rest" /\ YearRest /\ AuthorRest /\ ReportRest /\ CleanRest

vars == <<bench, aside>>

\* The state after AcademicSortingAnalyzer(csv_file), the file being one of
\* files: it is loaded.
BenchInit(files) ==
    /\ df \in {load_data(rows) : rows \in files}
    /\ pc = "idle"
    /\ k = 0
    /\ ip = 0
    /\ data = <<>>
    /\ sorted_data = <<>>
    /\ start_time = 0
    /\ end_time = 0
    /\ timing = FALSE
    /\ now = 0
    /\ results = <<>>
    /\ calls = [a \in AlgorithmNames |-> 0]
    /\ extractions = 0
    /\ builds = 0
    /\ failures = 0
    /\ locals = NoLocals

\* No benchmark is being followed: an analyzer of an empty file, not run.
BenchRest == BenchInit({<<>>})

InitWith(files) == BenchInit(files) /\ AsideRest

Init == InitWith(InputFiles)

\* The method the for loop is at.
Current == Algorithms[k]

\* The statement the running method is at.
Statement == MethodBody(Current)[ip]

\* results[name] = value
Store(dict, name, value) ==
    [a \in DOMAIN dict \cup {name} |-> IF a = name THEN value ELSE dict[a]]

\* run_all_algorithms is entered: results = {}.
RunAllBegin ==
    /\ pc = "idle"
    /\ pc' = "loop"
    /\ k' = 1
    /\ results' = <<>>
    /\ UNCHANGED <<aside, locals, df, ip, data, sorted_data, start_time, end_time, timing, now,
                   calls, extractions, builds, failures>>

\* result_df, exec_time = algorithm(): the method is entered.
CallAlgorithm ==
    /\ pc = "loop"
    /\ k <= Len(Algorithms)
    /\ ip = 0
    /\ ip' = 1
    /\ calls' = [calls EXCEPT ![Current] = calls[Current] + 1]
    /\ UNCHANGED <<aside, locals, df, pc, k, data, sorted_data, start_time, end_time, timing,
                   now, results, extractions, builds, failures>>

\* The key list derived by the first method only and reused by the others.
CreateDataOnce ==
    /\ pc = "loop"
    /\ ip > 0
    /\ Statement = "create"
    /\ data' = create_sortable_data(df)
    /\ extractions' = IF extractions = 0 THEN 1 ELSE extractions
    /\ now' = now + 1
    /\ ip' = ip + 1
    /\ UNCHANGED <<aside, locals, df, pc, k, sorted_data, start_time, end_time, timing,
                   results, calls, builds, failures>>

\* data = self._create_sortable_data()
CreateData ==
    /\ pc = "loop"
    /\ ip > 0
    /\ Statement = "create"
    /\ data' = create_sortable_data(df)
    /\ extractions' = extractions + 1
    /\ now' = now + 1
    /\ ip' = ip + 1
    /\ UNCHANGED <<aside, locals, df, pc, k, sorted_data, start_time, end_time, timing,
                   results, calls, builds, failures>>

\* start_time = time.perf_counter()
StartTimer ==
    /\ pc = "loop"
    /\ ip > 0
    /\ Statement = "start"
    /\ start_time' = now
    /\ timing' = TRUE
    /\ ip' = ip + 1
    /\ UNCHANGED <<aside, locals, df, pc, k, data, sorted_data, end_time, now, results, calls,
                   extractions, builds, failures>>

\* The sorting work of the method, between the two readings of the clock.
Sort ==
    /\ pc = "loop"
    /\ ip > 0
    /\ Statement = "sort"
    /\ LET outcome == SortWork(Current, data)
       IN  ~IsRaised(outcome) /\ sorted_data' = outcome
    /\ now' = now + 1
    /\ ip' = ip + 1
    /\ UNCHANGED <<aside, locals, df, pc, k, data, start_time, end_time, timing, results,
                   calls, extractions, builds, failures>>

\* A for loop that stays at the method it has just run.
NextAlgorithmSame(i) == i

\* The next position of the for loop after the method at position i has
\* returned or raised.
NextAlgorithm(i) == i + 1

\* run_all_algorithms without its try/except: the error leaves the loop.
RaiseErrorAborts ==
    /\ pc = "loop"
    /\ ip > 0
    /\ Statement = "sort"
    /\ failures < MaxFailures
    /\ failures' = failures + 1
    /\ pc' = "done"
    /\ ip' = 0
    /\ timing' = FALSE
    /\ UNCHANGED <<aside, locals, df, k, data, sorted_data, start_time, end_time, now, results,
                   calls, extractions, builds>>

\* The sorting work raises, by itself or by a forced error (of which a run
\* has at most MaxFailures): the method is left, and the except clause of
\* run_all_algorithms stores (None, float('inf')) and goes on.
RaiseError ==
    /\ pc = "loop"
    /\ ip > 0
    /\ Statement = "sort"
    /\ IF IsRaised(SortWork(Current, data))
       THEN failures' = failures
       ELSE failures < MaxFailures /\ failures' = failures + 1
    /\ results' = Store(results, Current, [df |-> None, time |-> Infinity])
    /\ now' = now + 1
    /\ ip' = 0
    /\ k' = NextAlgorithm(k)
    /\ data' = <<>>
    /\ sorted_data' = <<>>
    /\ timing' = FALSE
    /\ UNCHANGED <<aside, locals, df, pc, start_time, end_time, calls, extractions, builds>>

\* end_time = time.perf_counter()
StopTimer ==
    /\ pc = "loop"
    /\ ip > 0
    /\ Statement = "stop"
    /\ end_time' = now
    /\ timing' = FALSE
    /\ ip' = ip + 1
    /\ UNCHANGED <<aside, locals, df, pc, k, data, sorted_data, start_time, now, results,
                   calls, extractions, builds, failures>>

\* BuildResult that puts the reordered frame in place of the loaded one:
\* self.df = self.df.iloc[indices]
BuildResultInPlace ==
    /\ pc = "loop"
    /\ ip > 0
    /\ Statement = "build"
    /\ LET result_df == IF ReturnsCopy(Current, data)
                        THEN df
                        ELSE build_result_dataframe(df, sorted_data)
       IN  /\ results' = Store(results, Current,
                               [df |-> result_df, time |-> end_time - start_time])
           /\ df' = result_df
    /\ builds' = builds + 1
    /\ now' = now + 1
    /\ ip' = 0
    /\ k' = NextAlgorithm(k)
    /\ data' = <<>>
    /\ sorted_data' = <<>>
    /\ UNCHANGED <<aside, locals, pc, start_time, end_time, timing, calls, extractions,
                   failures>>

\* result_df = self._build_result_dataframe(...); return result_df,
\* end_time - start_time; results[name] = (result_df, exec_time)
BuildResult ==
    /\ pc = "loop"
    /\ ip > 0
    /\ Statement = "build"
    /\ LET result_df == IF ReturnsCopy(Current, data)
                        THEN df
                        ELSE build_result_dataframe(df, sorted_data)
       IN  results' = Store(results, Current,
                            [df |-> result_df, time |-> end_time - start_time])
    /\ builds' = builds + 1
    /\ now' = now + 1
    /\ ip' = 0
    /\ k' = NextAlgorithm(k)
    /\ data' = <<>>
    /\ sorted_data' = <<>>
    /\ UNCHANGED <<aside, locals, df, pc, start_time, end_time, timing, calls, extractions,
                   failures>>

\* return results
RunAllReturn ==
    /\ pc = "loop"
    /\ k > Len(Algorithms)
    /\ pc' = "done"
    /\ UNCHANGED <<aside, locals, df, k, ip, data, sorted_data, start_time, end_time, timing,
                   now, results, calls, extractions, builds, failures>>

Next ==
    \/ RunAllBegin
    \/ CallAlgorithm
    \/ CreateData
    \/ StartTimer
    \/ Sort
    \/ RaiseError
    \/ StopTimer
    \/ BuildResult
    \/ RunAllReturn

Spec == Init /\ [][Next]_vars

\* ------------------------------------------------- the loops, step by step

\* The methods whose loops and recursions are followed one step at a time.
SteppedMethods == {"CombSort", "TreeSort", "QuickSort", "GnomeSort"}

\* The local variables of the method when its sorting work begins.
InitialLocals(name, list) ==
    CASE name = "CombSort" ->
           [method |-> name, data |-> list, gap |-> Len(list), sorted_flag |-> FALSE]
      [] name = "GnomeSort" ->
           [method |-> name, data |-> list, index |-> 0]
      [] name = "QuickSort" ->
           [method |-> name, data |-> list, stack |-> << <<0, Len(list) - 1, 1>> >>]
      [] name = "TreeSort" ->
           [method |-> name, data |-> list, item |-> 1, root |-> Nil, path |-> <<>>]
      [] name = "RadixSort" ->
           [method |-> name, data |-> list, exp |-> 1,
            max_year |-> IF Len(list) = 0 THEN 0 ELSE Max(Years(list)),
            phase |-> IF Len(list) = 0 THEN "done" ELSE "passes"]
      [] name = "BinaryInsertionSort" ->
           [method |-> name, data |-> list, i |-> 1]
      [] name = "BitonicSort" ->
           [method |-> name, data |-> list, n |-> Len(list), phase |-> "pad", stack |-> <<>>]
      [] name = "HeapSort" ->
           [method |-> name, data |-> list, phase |-> "build", i |-> Len(list) \div 2 - 1]

\* The loop or recursion of the method has reached its end.
LoopEnded(l) ==
    CASE l.method = "CombSort"  -> l.sorted_flag
      [] l.method = "GnomeSort" -> ~(l.index < Len(l.data))
      [] l.method = "QuickSort" -> Len(l.stack) = 0
      [] l.method = "TreeSort"  -> l.item > Len(l.data)
      [] l.method = "HeapSort"  -> l.phase = "extract" /\ ~(l.i > 0)
      [] l.method = "RadixSort" -> l.phase = "done"
      [] l.method = "BitonicSort" -> l.phase = "done"
      [] l.method = "BinaryInsertionSort" -> ~(l.i < Len(l.data))
      [] OTHER -> FALSE

\* The list the method hands to _build_result_dataframe.
LoopResult(l) ==
    IF l.method = "TreeSort" THEN inorder_traversal(l.root, <<>>) ELSE l.data

\* The subtree a path of child positions (2 left, 3 right) leads to.
RECURSIVE NodeAt(_, _)
NodeAt(root, path) ==
    IF Len(path) = 0 THEN root ELSE NodeAt(root[path[1]], Tail(path))

\* root.left = ... / root.right = ... along the path: the tree with the
\* subtree at the path replaced.
RECURSIVE PlaceAt(_, _, _)
PlaceAt(root, path, node) ==
    IF Len(path) = 0
    THEN node
    ELSE IF path[1] = 2
         THEN <<root[1], PlaceAt(root[2], Tail(path), node), root[3]>>
         ELSE <<root[1], root[2], PlaceAt(root[3], Tail(path), node)>>

\* _insert_tree_node that goes right at every node.
BranchRight(val, node) == 3

\* _insert_tree_node at a node: the left child (2) if val < root.val, else
\* the right child (3).
Branch(val, node) == IF TupleLess(val, node[1]) THEN 2 ELSE 3

\* The nested calls _inorder_traversal makes on a tree: one more than its
\* height, for the calls on None.
RECURSIVE TraversalDepth(_)
TraversalDepth(root) ==
    IF Len(root) = 0
    THEN 1
    ELSE 1 + Max({TraversalDepth(root[2]), TraversalDepth(root[3])})

\* The scaled recursion limit applies in a benchmark run, whose file stands
\* for one of more rows than the limit; a method that is followed on its own
\* sorts the file as it is, and its few rows keep every recursion far below
\* the limit of the interpreter.
RecursionLimited == side = "rest"

\* The call the recursion makes next is nested deeper than the interpreter
\* allows: _quick_sort_recursive calling _quick_sort_partition,
\* _insert_tree_node calling itself, _inorder_traversal on the finished tree.
TooDeep(l) ==
    CASE ~RecursionLimited -> FALSE
      [] l.method = "QuickSort" ->
           /\ Len(l.stack) > 0
           /\ \/ l.stack[1][3] > RecursionLimit
              \/ l.stack[1][1] < l.stack[1][2] /\ l.stack[1][3] + 1 > RecursionLimit
      [] l.method = "TreeSort" ->
           IF l.item <= Len(l.data)
           THEN Len(l.path) + 1 > RecursionLimit
           ELSE TraversalDepth(l.root) > RecursionLimit
      [] OTHER -> FALSE

\* The sorting work of a stepped method begins: its locals are set.
EnterLoop ==
    /\ pc = "loop"
    /\ ip > 0
    /\ Statement = "sort"
    /\ Current \in SteppedMethods
    /\ locals = NoLocals
    /\ locals' = InitialLocals(Current, data)
    /\ UNCHANGED <<aside, df, pc, k, ip, data, sorted_data, start_time, end_time, timing,
                   now, results, calls, extractions, builds, failures>>

\* comb_sort: one iteration of while not sorted_flag.
CombStep ==
    /\ locals.method = "CombSort"
    /\ ~locals.sorted_flag
    /\ LET r == CombIteration(locals.data, locals.gap)
       IN  locals' = [locals EXCEPT !.data = r[1], !.gap = r[2], !.sorted_flag = r[3]]
    /\ UNCHANGED <<aside, df, pc, k, ip, data, sorted_data, start_time, end_time, timing,
                   now, results, calls, extractions, builds, failures>>

\* gnome_sort: one iteration of while index < n.
GnomeStep ==
    /\ locals.method = "GnomeSort"
    /\ locals.index < Len(locals.data)
    /\ locals' = IF GnomeInOrder(locals.data, locals.index)
                 THEN [locals EXCEPT !.index = locals.index + 1]
                 ELSE [locals EXCEPT
                         !.data  = Swap(locals.data, locals.index, locals.index - 1),
                         !.index = locals.index - 1]
    /\ UNCHANGED <<aside, df, pc, k, ip, data, sorted_data, start_time, end_time, timing,
                   now, results, calls, extractions, builds, failures>>

\* _quick_sort_recursive: one call; the two calls it makes wait on the stack,
\* the left one on top.
QuickStep ==
    /\ locals.method = "QuickSort"
    /\ Len(locals.stack) > 0
    /\ ~TooDeep(locals)
    /\ LET low  == locals.stack[1][1]
           high == locals.stack[1][2]
           deep == locals.stack[1][3] + 1
           rest == Tail(locals.stack)
       IN  IF low < high
           THEN LET p == quick_sort_partition(locals.data, low, high)
                IN  locals' = [locals EXCEPT
                                 !.data  = p[1],
                                 !.stack = << <<low, p[2] - 1, deep>>,
                                              <<p[2] + 1, high, deep>> >> \o rest]
           ELSE locals' = [locals EXCEPT !.stack = rest]
    /\ UNCHANGED <<aside, df, pc, k, ip, data, sorted_data, start_time, end_time, timing,
                   now, results, calls, extractions, builds, failures>>

\* _insert_tree_node: one call, at the subtree the path leads to; at None the
\* node is placed and the for loop of tree_sort goes to its next item.
TreeStep ==
    /\ locals.method = "TreeSort"
    /\ locals.item <= Len(locals.data)
    /\ ~TooDeep(locals)
    /\ LET val  == locals.data[locals.item]
           node == NodeAt(locals.root, locals.path)
       IN  IF Len(node) = 0
           THEN locals' = [locals EXCEPT
                             !.root = PlaceAt(locals.root, locals.path, TreeNode(val)),
                             !.item = locals.item + 1,
                             !.path = <<>>]
           ELSE locals' = [locals EXCEPT
                             !.path = Append(locals.path, Branch(val, node))]
    /\ UNCHANGED <<aside, df, pc, k, ip, data, sorted_data, start_time, end_time, timing,
                   now, results, calls, extractions, builds, failures>>

\* The loop has ended: the method goes on to read end_time.
ExitLoop ==
    /\ LoopEnded(locals)
    /\ ~TooDeep(locals)
    /\ sorted_data' = LoopResult(locals)
    /\ locals' = NoLocals
    /\ now' = now + 1
    /\ ip' = ip + 1
    /\ UNCHANGED <<aside, df, pc, k, data, start_time, end_time, timing, results, calls,
                   extractions, builds, failures>>

\* The interpreter refuses a call nested too deep: RecursionError leaves the
\* method, and the except clause of run_all_algorithms stores
\* (None, float('inf')) and goes on.
RaiseRecursionError ==
    /\ TooDeep(locals)
    /\ results' = Store(results, Current, [df |-> None, time |-> Infinity])
    /\ locals' = NoLocals
    /\ now' = now + 1
    /\ ip' = 0
    /\ k' = NextAlgorithm(k)
    /\ data' = <<>>
    /\ sorted_data' = <<>>
    /\ timing' = FALSE
    /\ UNCHANGED <<aside, df, pc, start_time, end_time, calls, extractions, builds, failures>>

\* The sorting work of a method whose loops are not followed step by step.
SortAtOnce ==
    /\ pc = "loop"
    /\ ip > 0
    /\ Current \notin SteppedMethods
    /\ Sort

StepNext ==
    \/ RunAllBegin
    \/ CallAlgorithm
    \/ CreateData
    \/ StartTimer
    \/ SortAtOnce
    \/ EnterLoop
    \/ CombStep
    \/ GnomeStep
    \/ QuickStep
    \/ TreeStep
    \/ ExitLoop
    \/ RaiseRecursionError
    \/ StopTimer
    \/ BuildResult
    \/ RunAllReturn

StepSpec == Init /\ [][StepNext]_vars

\* ------------------------------------------------- _extract_year on its own

\* The pieces the dates are made of: "2019", "1987", "2105", "5", "a", "-",
\* " " and "_".
DateTokens ==
    {<<50, 48, 49, 57>>, <<49, 57, 56, 55>>, <<50, 49, 48, 53>>, <<53>>, <<97>>,
     <<45>>, <<32>>, <<95>>}

RECURSIVE Concat(_)
Concat(parts) ==
    IF Len(parts) = 0 THEN <<>> ELSE parts[1] \o Concat(Tail(parts))

\* 'Published 2019-05'
PublishedDate ==
    <<80, 117, 98, 108, 105, 115, 104, 101, 100, 32, 50, 48, 49, 57, 45, 48, 53>>

\* The values of publication_date: a missing one, the empty string, and the
\* strings of at most MaxTokens pieces.
DateStrings ==
    {NaN, PublishedDate}
        \cup {Concat(parts) : parts \in UNION {[1..n -> DateTokens] : n \in 0..MaxTokens}}

YearInit ==
    /\ side = "called"
    /\ date_str \in DateStrings
    /\ year = 0
    /\ BenchRest
    /\ AuthorRest
    /\ ReportRest
    /\ CleanRest

\* self._extract_year(date_str)
ExtractYear ==
    /\ side = "called"
    /\ year' = extract_year(date_str)
    /\ side' = "returned"
    /\ UNCHANGED <<date_str, bench, authorVars, reportVars, cleanVars>>

YearNext == ExtractYear

YearSpec == YearInit /\ [][YearNext]_vars

\* ----------------------------------------- _create_sortable_data on its own

\* Rows that try the extractor: " Ab " / "2019", a row of missing values,
\* "ab" / "n/a", "Cd" and a tab / "2020-01", a title of three spaces with no
\* date, and no title with the date "20195".
KeyRecordPool ==
    {[title |-> <<32, 65, 98, 32>>,    publication_date |-> <<50, 48, 49, 57>>],
     [title |-> NaN,                   publication_date |-> NaN],
     [title |-> <<97, 98>>,            publication_date |-> <<110, 47, 97>>],
     [title |-> <<67, 100, 9>>,        publication_date |-> <<50, 48, 50, 48, 45, 48, 49>>],
     [title |-> <<32, 32, 32>>,        publication_date |-> NaN],
     [title |-> NaN,                   publication_date |-> <<50, 48, 49, 57, 53>>]}

KeyFiles == UNION {[1..n -> KeyRecordPool] : n \in 0..MaxRecords}

\* An analyzer has loaded its file and _create_sortable_data is called.
KeyInit ==
    /\ BenchInit(KeyFiles)
    /\ side = "called"
    /\ YearRest
    /\ AuthorRest
    /\ ReportRest
    /\ CleanRest

\* self._create_sortable_data()
CreateSortableData ==
    /\ side = "called"
    /\ data' = create_sortable_data(df)
    /\ side' = "returned"
    /\ UNCHANGED <<df, pc, k, ip, sorted_data, start_time, end_time, timing, now,
                   results, calls, extractions, builds, failures, locals, yearVars,
                   authorVars, reportVars, cleanVars>>

KeyNext == CreateSortableData

KeySpec == KeyInit /\ [][KeyNext]_vars

\* ----------------------------------------------- get_top_authors on its own

\* str.split(';'), from position i with the part begun: the parts.
RECURSIVE SplitFrom(_, _, _)
SplitFrom(s, i, part) ==
    IF i > Len(s)
    THEN <<part>>
    ELSE IF s[i] = 59
         THEN <<part>> \o SplitFrom(s, i + 1, <<>>)
         ELSE SplitFrom(s, i + 1, Append(part, s[i]))

Split(s) == SplitFrom(s, 1, <<>>)

\* author.strip() kept as it is.
CleanAuthorAsIs(author) == author

\* cleaned_author = author.strip()
CleanAuthor(author) == Strip(author)

\* The inner loop of get_top_authors over the parts of one field.
RECURSIVE AuthorsOfField(_)
AuthorsOfField(parts) ==
    IF Len(parts) = 0
    THEN <<>>
    ELSE LET cleaned_author == CleanAuthor(parts[1])
         IN  (IF Len(cleaned_author) > 0 THEN <<cleaned_author>> ELSE <<>>)
                 \o AuthorsOfField(Tail(parts))

\* The outer loop of get_top_authors: all_authors.
RECURSIVE AllAuthors(_)
AllAuthors(column) ==
    IF Len(column) = 0
    THEN <<>>
    ELSE (IF IsNa(column[1]) \/ column[1] = <<>>
          THEN <<>>
          ELSE AuthorsOfField(Split(column[1])))
             \o AllAuthors(Tail(column))

\* Counter(all_authors): the pairs (name, count) in the order in which the
\* names were first met.
RECURSIVE Counter(_)
Counter(names) ==
    IF Len(names) = 0
    THEN <<>>
    ELSE LET before == Counter(SubSeq(names, 1, Len(names) - 1))
             name   == names[Len(names)]
             at     == {i \in 1..Len(before) : before[i][1] = name}
         IN  IF at = {}
             THEN Append(before, <<name, 1>>)
             ELSE LET i == CHOOSE j \in at : TRUE
                  IN  SubSeq(before, 1, i - 1) \o << <<name, before[i][2] + 1>> >>
                          \o SubSeq(before, i + 1, Len(before))

\* sorted(counts, key=count, reverse=True): descending and stable.
RECURSIVE ByCount(_)
ByCount(counts) ==
    IF Len(counts) = 0
    THEN <<>>
    ELSE LET init == ByCount(SubSeq(counts, 1, Len(counts) - 1))
             x    == counts[Len(counts)]
             p    == Cardinality({i \in 1..Len(init) : init[i][2] >= x[2]})
         IN  SubSeq(init, 1, p) \o <<x>> \o SubSeq(init, p + 1, Len(init))

\* Counter.most_common(n)
most_common(counts, n) ==
    IF n <= 0 THEN <<>> ELSE SubSeq(ByCount(counts), 1, Min({n, Len(counts)}))

\* get_top_authors: an empty frame gives an empty table.
get_top_authors(column, n) ==
    IF Len(column) = 0 THEN <<>> ELSE most_common(Counter(AllAuthors(column)), n)

\* The authors fields: 'A; B', 'B; C', 'A', a missing one, ' a ;;B; ' and
\* 'C;C'.
AuthorFields ==
    {<<65, 59, 32, 66>>, <<66, 59, 32, 67>>, <<65>>, NaN,
     <<32, 97, 32, 59, 59, 66, 59, 32>>, <<67, 59, 67>>}

AuthorColumns == UNION {[1..n -> AuthorFields] : n \in 0..MaxRecords}

AuthorInit ==
    /\ side = "called"
    /\ authors \in AuthorColumns
    /\ top_n \in 0..MaxTop
    /\ top_authors = <<>>
    /\ BenchRest
    /\ YearRest
    /\ ReportRest
    /\ CleanRest

\* self.get_top_authors(top_n)
GetTopAuthors ==
    /\ side = "called"
    /\ top_authors' = get_top_authors(authors, top_n)
    /\ side' = "returned"
    /\ UNCHANGED <<authors, top_n, bench, yearVars, reportVars, cleanVars>>

AuthorNext == GetTopAuthors

AuthorSpec == AuthorInit /\ [][AuthorNext]_vars

\* ------------------------------------------------------ comb_sort on its own

\* The rows of the files comb_sort is followed on: no title, three years.
CombRecordPool ==
    {[title |-> NaN, publication_date |-> <<50, 48, 49, 57>>],
     [title |-> NaN, publication_date |-> <<50, 48, 50, 48>>],
     [title |-> NaN, publication_date |-> <<50, 48, 50, 49>>]}

CombFiles == UNION {[1..n -> CombRecordPool] : n \in 0..MaxCombRecords}

\* An analyzer has loaded its file and comb_sort is called.
CombInit ==
    /\ BenchInit(CombFiles)
    /\ side = "called"
    /\ YearRest
    /\ AuthorRest
    /\ ReportRest
    /\ CleanRest

\* comb_sort up to its loop: the key list, the clock, n, gap, sorted_flag.
CombSortBegins ==
    /\ side = "called"
    /\ data' = create_sortable_data(df)
    /\ extractions' = extractions + 1
    /\ start_time' = now
    /\ timing' = TRUE
    /\ now' = now + 1
    /\ locals' = InitialLocals("CombSort", create_sortable_data(df))
    /\ side' = "sorting"
    /\ UNCHANGED <<df, pc, k, ip, sorted_data, end_time, results, calls, builds, failures,
                   yearVars, authorVars, reportVars, cleanVars>>

\* comb_sort after its loop: the clock is read, the result frame built.
CombSortReturns ==
    /\ side = "sorting"
    /\ locals.method = "CombSort"
    /\ locals.sorted_flag
    /\ end_time' = now
    /\ timing' = FALSE
    /\ now' = now + 1
    /\ sorted_data' = locals.data
    /\ builds' = builds + 1
    /\ locals' = NoLocals
    /\ side' = "returned"
    /\ UNCHANGED <<df, pc, k, ip, data, start_time, results, calls, extractions, failures,
                   yearVars, authorVars, reportVars, cleanVars>>

CombNext ==
    \/ CombSortBegins
    \/ CombStep
    \/ CombSortReturns

CombSpec == CombInit /\ [][CombNext]_vars

\* ------------------------------------------ the other methods on their own

\* The rows of the files the methods are followed on: 'b' of 2019, 'a' of
\* 2020, 'a' of 2019, and a row without title and date.
StepRecordPool ==
    {[title |-> <<98>>, publication_date |-> <<50, 48, 49, 57>>],
     [title |-> <<97>>, publication_date |-> <<50, 48, 50, 48>>],
     [title |-> <<97>>, publication_date |-> <<50, 48, 49, 57>>],
     [title |-> NaN,    publication_date |-> NaN]}

StepFiles == UNION {[1..n -> StepRecordPool] : n \in 0..MaxStepRecords}

\* An analyzer has loaded its file and one of its sorting methods is called.
MethodInit ==
    /\ BenchInit(StepFiles)
    /\ side = "called"
    /\ YearRest
    /\ AuthorRest
    /\ ReportRest
    /\ CleanRest

\* The method up to its sorting work: the key list, the clock, the locals.
MethodBegins(name) ==
    /\ side = "called"
    /\ data' = create_sortable_data(df)
    /\ extractions' = extractions + 1
    /\ start_time' = now
    /\ timing' = TRUE
    /\ now' = now + 1
    /\ locals' = InitialLocals(name, create_sortable_data(df))
    /\ side' = "sorting"
    /\ UNCHANGED <<df, pc, k, ip, sorted_data, end_time, results, calls, builds, failures,
                   yearVars, authorVars, reportVars, cleanVars>>

\* The method after its sorting work: the clock is read, the result frame
\* built.
MethodReturns(name) ==
    /\ side = "sorting"
    /\ locals.method = name
    /\ LoopEnded(locals)
    /\ end_time' = now
    /\ timing' = FALSE
    /\ now' = now + 1
    /\ sorted_data' = LoopResult(locals)
    /\ builds' = builds + 1
    /\ locals' = NoLocals
    /\ side' = "returned"
    /\ UNCHANGED <<df, pc, k, ip, data, start_time, results, calls, extractions, failures,
                   yearVars, authorVars, reportVars, cleanVars>>

QuickNext ==
    \/ MethodBegins("QuickSort")
    \/ QuickStep
    \/ MethodReturns("QuickSort")

QuickSpec == MethodInit /\ [][QuickNext]_vars

\* heap_sort, the body of the second loop without its call of _heapify.
HeapExtractNoHeapify(arr, i) == Swap(arr, 0, i)

\* heap_sort, the body of the second loop: data[0], data[i] = data[i],
\* data[0]; self._heapify(data, i, 0)
HeapExtract(arr, i) == heapify(Swap(arr, 0, i), i, 0)

\* heap_sort: one iteration of the first loop (i from n // 2 - 1 down to 0),
\* the passage to the second loop (i from n - 1), or one iteration of it.
HeapStep ==
    /\ side = "sorting"
    /\ locals.method = "HeapSort"
    /\ ~LoopEnded(locals)
    /\ locals' =
          IF locals.phase = "build"
          THEN IF locals.i >= 0
               THEN [locals EXCEPT
                       !.data = heapify(locals.data, Len(locals.data), locals.i),
                       !.i    = locals.i - 1]
               ELSE [locals EXCEPT !.phase = "extract", !.i = Len(locals.data) - 1]
          ELSE [locals EXCEPT
                  !.data = HeapExtract(locals.data, locals.i),
                  !.i    = locals.i - 1]
    /\ UNCHANGED <<aside, df, pc, k, ip, data, sorted_data, start_time, end_time, timing,
                   now, results, calls, extractions, builds, failures>>

HeapNext ==
    \/ MethodBegins("HeapSort")
    \/ HeapStep
    \/ MethodReturns("HeapSort")

HeapSpec == MethodInit /\ [][HeapNext]_vars

\* radix_sort after its passes: each group of one year sorted by title.
RadixGroups(passed) ==
    LET grouped == GroupLoop(passed, 0, NoYear, 0)
    IN  IF Len(grouped[1]) > grouped[2]
        THEN SortSlice(grouped[1], grouped[2], Len(grouped[1]))
        ELSE grouped[1]

\* radix_sort: one iteration of while max_year // exp > 0, or, when that loop
\* has ended, the sorting of the year groups by title.
RadixStep ==
    /\ side = "sorting"
    /\ locals.method = "RadixSort"
    /\ locals.phase = "passes"
    /\ locals' =
          IF locals.max_year \div locals.exp > 0
          THEN [locals EXCEPT
                  !.data = counting_sort_for_radix(locals.data, locals.exp),
                  !.exp  = locals.exp * 10]
          ELSE [locals EXCEPT !.data = RadixGroups(locals.data), !.phase = "done"]
    /\ UNCHANGED <<aside, df, pc, k, ip, data, sorted_data, start_time, end_time, timing,
                   now, results, calls, extractions, builds, failures>>

RadixNext ==
    \/ MethodBegins("RadixSort")
    \/ RadixStep
    \/ MethodReturns("RadixSort")

RadixSpec == MethodInit /\ [][RadixNext]_vars

\* binary_insertion_sort: one iteration of for i in range(1, n).
InsertionSortStep ==
    /\ side = "sorting"
    /\ locals.method = "BinaryInsertionSort"
    /\ ~LoopEnded(locals)
    /\ locals' = [locals EXCEPT !.data = InsertionStep(locals.data, locals.i),
                                !.i    = locals.i + 1]
    /\ UNCHANGED <<aside, df, pc, k, ip, data, sorted_data, start_time, end_time, timing,
                   now, results, calls, extractions, builds, failures>>

InsertionNext ==
    \/ MethodBegins("BinaryInsertionSort")
    \/ InsertionSortStep
    \/ MethodReturns("BinaryInsertionSort")

InsertionSpec == MethodInit /\ [][InsertionNext]_vars

\* Rows for bitonic_sort: the least and the greatest year a date can give, a
\* title greater than the one of the padding entry, a row without date.
BitonicRecordPool ==
    {[title |-> <<122, 122, 122, 122, 122, 122>>, publication_date |-> <<50, 48, 57, 57>>],
     [title |-> <<97>>, publication_date |-> <<49, 57, 48, 48>>],
     [title |-> <<122, 122, 122, 122, 122, 122>>, publication_date |-> NaN]}

BitonicFiles == UNION {[1..n -> BitonicRecordPool] : n \in 0..MaxStepRecords}

BitonicInit ==
    /\ BenchInit(BitonicFiles)
    /\ side = "called"
    /\ YearRest
    /\ AuthorRest
    /\ ReportRest
    /\ CleanRest

\* The calls that a call of _bitonic_sort_recursive or of _bitonic_merge
\* makes, in their order; a call is (function, low, cnt, up).
BitonicCalls(call) ==
    LET low == call[2]
        cnt == call[3]
        up  == call[4]
        half == cnt \div 2
    IN  IF cnt > 1
        THEN IF call[1] = "sort"
             THEN << <<"sort", low, half, TRUE>>, <<"sort", low + half, half, FALSE>>,
                     <<"merge", low, cnt, up>> >>
             ELSE << <<"merge", low, half, up>>, <<"merge", low + half, half, up>> >>
        ELSE <<>>

\* What a call does to the list before the calls it makes: the for loop of
\* _bitonic_merge.
BitonicWork(arr, call) ==
    IF call[1] = "merge" /\ call[3] > 1
    THEN CompareSwapLoop(arr, call[2], call[2] + call[3] \div 2, call[3] \div 2, call[4])
    ELSE arr

\* bitonic_sort: one data.append(max_item), or the call of
\* _bitonic_sort_recursive on the padded list, or the next of the calls that
\* are pending, or data = data[:n].
BitonicStep ==
    /\ side = "sorting"
    /\ locals.method = "BitonicSort"
    /\ ~LoopEnded(locals)
    /\ locals' =
          CASE locals.phase = "pad" ->
                 IF Len(locals.data) < NextPowerOf2(locals.n)
                 THEN [locals EXCEPT !.data = Append(locals.data, max_item)]
                 ELSE [locals EXCEPT
                         !.stack = << <<"sort", 0, Len(locals.data), TRUE>> >>,
                         !.phase = "network"]
            [] locals.phase = "network" ->
                 IF Len(locals.stack) > 0
                 THEN [locals EXCEPT
                         !.data  = BitonicWork(locals.data, Head(locals.stack)),
                         !.stack = BitonicCalls(Head(locals.stack)) \o Tail(locals.stack)]
                 ELSE [locals EXCEPT !.phase = "sorted"]
            [] OTHER ->
                 [locals EXCEPT !.data = SubSeq(locals.data, 1, locals.n), !.phase = "done"]
    /\ UNCHANGED <<aside, df, pc, k, ip, data, sorted_data, start_time, end_time, timing,
                   now, results, calls, extractions, builds, failures>>

BitonicNext ==
    \/ MethodBegins("BitonicSort")
    \/ BitonicStep
    \/ MethodReturns("BitonicSort")

BitonicSpec == BitonicInit /\ [][BitonicNext]_vars

TreeNext ==
    \/ MethodBegins("TreeSort")
    \/ TreeStep
    \/ MethodReturns("TreeSort")

TreeSpec == MethodInit /\ [][TreeNext]_vars

\* ------------------------------------------ any one of the twelve methods

\* Files that have rows of one (year, title) more than once.
StableFiles == UNION {[1..n -> StepRecordPool] : n \in 0..MaxRecords}

StableInit ==
    /\ BenchInit(StableFiles)
    /\ side = "called"
    /\ YearRest
    /\ AuthorRest
    /\ ReportRest
    /\ CleanRest

\* One of the twelve sorting methods, from its call to its return.
SortingMethodRuns ==
    /\ side = "called"
    /\ \E name \in AlgorithmNames :
          LET keys == create_sortable_data(df)
          IN  /\ data' = keys
              /\ sorted_data' = IF ReturnsCopy(name, keys) THEN keys ELSE SortWork(name, keys)
              /\ calls' = [calls EXCEPT ![name] = calls[name] + 1]
    /\ extractions' = extractions + 1
    /\ builds' = builds + 1
    /\ start_time' = now
    /\ end_time' = now + 1
    /\ now' = now + 2
    /\ side' = "returned"
    /\ UNCHANGED <<df, pc, k, ip, timing, results, failures, locals,
                   yearVars, authorVars, reportVars, cleanVars>>

StableNext == SortingMethodRuns

StableSpec == StableInit /\ [][StableNext]_vars

\* ------------------------------------------------- EBSCOScraper.scrape_all

\* What a request of scrape_all can come to: a batch of articles, a batch
\* without articles, a RequestException whose text has neither 401 nor 403,
\* one whose text has 401 or 403, any other exception.
Outcomes == {"batch", "empty", "network", "auth", "other"}

\* max_consecutive_errors = 3
max_consecutive_errors == 3

\* max_results: None is the empty tuple, a number n is <<n>>.
MaxResultsValues == {<<>>} \cup {<<n>> : n \in 0..(MaxItems + 1)}

\* min(max_results or total_items, total_items)
TargetResults(max_results, total_items) ==
    LET wanted == IF max_results = <<>> \/ max_results[1] = 0
                  THEN total_items
                  ELSE max_results[1]
    IN  IF wanted < total_items THEN wanted ELSE total_items

\* min(batch_size, target_results - len(all_articles))
CurrentBatchSize(l) ==
    LET remaining == l.target_results - Len(l.all_articles)
    IN  IF l.batch_size < remaining THEN l.batch_size ELSE remaining

\* The articles extract_articles finds in a batch asked for at an offset.
RECURSIVE Batch(_, _)
Batch(offset, size) ==
    IF size = 0 THEN <<>> ELSE Append(Batch(offset, size - 1), <<offset, size>>)

\* The outcomes of the last three requests, the newest last.
Recent(log, outcome) ==
    LET all == Append(log, outcome)
    IN  IF Len(all) > max_consecutive_errors THEN Tail(all) ELSE all

\* The locals of scrape_all when get_total_items has answered.
ScrapeLocals(max_results, batch_size, total_items) ==
    [method             |-> "scrape_all",
     batch_size         |-> batch_size,
     target_results     |-> TargetResults(max_results, total_items),
     all_articles       |-> <<>>,
     offset             |-> 0,
     consecutive_errors |-> 0,
     log                |-> <<>>]

\* while len(all_articles) < target_results
\*       and consecutive_errors < max_consecutive_errors
ScrapeCondition(l) ==
    /\ Len(l.all_articles) < l.target_results
    /\ l.consecutive_errors < max_consecutive_errors

\* The body of the loop in which a batch of articles leaves the count of
\* errors as it is.
AfterRequestKeepsCount(l, outcome, size) ==
    CASE outcome = "batch" ->
           [l EXCEPT !.all_articles = l.all_articles \o Batch(l.offset, size),
                     !.offset       = l.offset + CurrentBatchSize(l),
                     !.log          = Recent(l.log, outcome)]
      [] outcome = "empty" ->
           [l EXCEPT !.log = Recent(l.log, outcome)]
      [] outcome = "auth" ->
           [l EXCEPT !.consecutive_errors = 0,
                     !.log                = Recent(l.log, outcome)]
      [] OTHER ->
           [l EXCEPT !.consecutive_errors = l.consecutive_errors + 1,
                     !.log                = Recent(l.log, outcome)]

\* The body of the loop: the try block when the request gives a batch of
\* size articles or none, the first except clause for a RequestException
\* (with 401 or 403: manual_login, consecutive_errors = 0, continue), the
\* second for any other exception.
AfterRequest(l, outcome, size) ==
    CASE outcome = "batch" ->
           [l EXCEPT !.all_articles       = l.all_articles \o Batch(l.offset, size),
                     !.offset             = l.offset + CurrentBatchSize(l),
                     !.consecutive_errors = 0,
                     !.log                = Recent(l.log, outcome)]
      [] outcome = "empty" ->
           [l EXCEPT !.log = Recent(l.log, outcome)]
      [] outcome = "auth" ->
           [l EXCEPT !.consecutive_errors = 0,
                     !.log                = Recent(l.log, outcome)]
      [] OTHER ->
           [l EXCEPT !.consecutive_errors = l.consecutive_errors + 1,
                     !.log                = Recent(l.log, outcome)]

\* EBSCOScraper(): nothing is scraped yet; scrape_all is called.
ScrapeInit ==
    /\ BenchRest
    /\ side = "called"
    /\ YearRest
    /\ AuthorRest
    /\ ReportRest
    /\ CleanRest

\* scrape_all up to its loop: the cookies are tested, get_total_items
\* answers; return [] when it answers 0.
ScrapeBegins ==
    /\ side = "called"
    /\ \E max_results \in MaxResultsValues, batch_size \in 1..MaxBatch,
          total_items \in 0..MaxItems :
          /\ locals' = ScrapeLocals(max_results, batch_size, total_items)
          /\ side' = IF total_items = 0 THEN "returned" ELSE "scraping"
    /\ UNCHANGED <<df, pc, k, ip, data, sorted_data, start_time, end_time, timing, now,
                   results, calls, extractions, builds, failures,
                   yearVars, authorVars, reportVars, cleanVars>>

\* One iteration of the while loop; a batch without articles breaks it.
ScrapeRequest ==
    /\ side = "scraping"
    /\ ScrapeCondition(locals)
    /\ \E outcome \in Outcomes, size \in 1..CurrentBatchSize(locals) :
          /\ locals' = AfterRequest(locals, outcome, size)
          /\ side' = IF outcome = "empty" THEN "returned" ELSE "scraping"
    /\ UNCHANGED <<df, pc, k, ip, data, sorted_data, start_time, end_time, timing, now,
                   results, calls, extractions, builds, failures,
                   yearVars, authorVars, reportVars, cleanVars>>

\* The condition of the loop is false: return all_articles.
ScrapeReturns ==
    /\ side = "scraping"
    /\ ~ScrapeCondition(locals)
    /\ side' = "returned"
    /\ UNCHANGED <<bench, yearVars, authorVars, reportVars, cleanVars>>

ScrapeNext ==
    \/ ScrapeBegins
    \/ ScrapeRequest
    \/ ScrapeReturns

ScrapeSpec == ScrapeInit /\ [][ScrapeNext]_vars

\* Every request and every manual_login returns, so the method goes on as
\* long as it has a next step.
ScrapeFairSpec == ScrapeSpec /\ WF_vars(ScrapeNext)

\* --------------------------------------- generate_complete_report on its own

\* The files reports are made of: an empty one, and one of two rows that are
\* out of order.
ReportFiles ==
    {<<>>,
     <<[title            |-> <<90, 101, 98, 114, 97, 32, 83, 116, 117, 100, 121>>,
        publication_date |-> <<50, 48, 50, 48>>],
       [title            |-> <<65, 112, 112, 108, 101, 32, 83, 116, 117, 100, 121>>,
        publication_date |-> <<50, 48, 49, 57>>]>>}

\* Their authors columns: none, or 'A; B' and 'B; C'.
ReportAuthorColumns == {<<>>, <<<<65, 59, 32, 66>>, <<66, 59, 32, 67>>>>}

\* The position of a name in the registry.
Position(name) == CHOOSE i \in 1..Len(Algorithms) : Algorithms[i] = name

\* The elapsed times the clock may give the algorithms that complete: rising
\* along the registry, falling along it, or the same for all.
ElapsedTimes ==
    {[a \in AlgorithmNames |-> Position(a)],
     [a \in AlgorithmNames |-> Len(Algorithms) + 1 - Position(a)],
     [a \in AlgorithmNames |-> 1]}

\* What the method registered under name returns for the frame, when it
\* returns.
ResultFrame(name, frame) ==
    LET keys == create_sortable_data(frame)
    IN  IF ReturnsCopy(name, keys)
        THEN frame
        ELSE build_result_dataframe(frame, SortWork(name, keys))

\* The dict run_all_algorithms returns when the algorithms of failed raise
\* and the others take the times elapsed.
ResultTable(frame, failed, elapsed) ==
    [a \in AlgorithmNames |->
        IF a \in failed
        THEN [df |-> None, time |-> Infinity]
        ELSE [df |-> ResultFrame(a, frame), time |-> elapsed[a]]]

\* for name, (df, time_taken) in results.items(): the entries of the table
\* from position i on, as (name, df, time).
RECURSIVE Items(_, _)
Items(results_table, i) ==
    IF i > Len(Algorithms)
    THEN <<>>
    ELSE IF Algorithms[i] \in DOMAIN results_table
         THEN <<<<Algorithms[i], results_table[Algorithms[i]].df,
                  results_table[Algorithms[i]].time>>>>
                  \o Items(results_table, i + 1)
         ELSE Items(results_table, i + 1)

\* sorted's insertion of item among the pairs (name, time) already in order:
\* after those that are not greater.
InsertByTime(done, item) ==
    SelectSeq(done, LAMBDA x : x[2] <= item[2])
        \o <<item>>
        \o SelectSeq(done, LAMBDA x : x[2] > item[2])

\* sorted(pairs, key=lambda x: x[1])
RECURSIVE SortedByTime(_)
SortedByTime(pairs) ==
    IF pairs = <<>>
    THEN <<>>
    ELSE InsertByTime(SortedByTime(SubSeq(pairs, 1, Len(pairs) - 1)), pairs[Len(pairs)])

\* The loop of create_time_comparison_chart: (name, time_taken * 1000) of the
\* entries whose time is not float('inf').
RECURSIVE ChartPairs(_)
ChartPairs(items) ==
    IF items = <<>>
    THEN <<>>
    ELSE (IF items[1][3] # Infinity
          THEN <<<<items[1][1], items[1][3] * 1000>>>>
          ELSE <<>>) \o ChartPairs(Tail(items))

\* sorted_data of create_time_comparison_chart.
ChartData(results_table) == SortedByTime(ChartPairs(Items(results_table, 1)))

\* The default of generate_complete_report's output_base.
output_base == "academic_sorting_analysis"

\* The loop of save_sorted_results without its test of df: a file for every
\* entry.
RECURSIVE SavedEntries(_, _)
SavedEntries(items, output_dir) ==
    IF items = <<>>
    THEN <<>>
    ELSE <<[file  |-> output_dir \o "/" \o items[1][1] \o "_sorted.csv",
            frame |-> items[1][2]]>> \o SavedEntries(Tail(items), output_dir)

\* The loop of save_sorted_results: the frames written, in the order written.
RECURSIVE SavedFrames(_, _)
SavedFrames(items, output_dir) ==
    IF items = <<>>
    THEN <<>>
    ELSE (IF items[1][2] # None
          THEN <<[file  |-> output_dir \o "/" \o items[1][1] \o "_sorted.csv",
                  frame |-> items[1][2]]>>
          ELSE <<>>) \o SavedFrames(Tail(items), output_dir)

save_sorted_results(results_table, output_dir) ==
    SavedFrames(Items(results_table, 1), output_dir)

\* [(name, time_taken) for name, (df, time_taken) in results.items()]
RECURSIVE TimePairs(_)
TimePairs(items) ==
    IF items = <<>>
    THEN <<>>
    ELSE <<<<items[1][1], items[1][3]>>>> \o TimePairs(Tail(items))

\* The times of the report left in the order of the table.
TimesInTableOrder(results_table) == TimePairs(Items(results_table, 1))

\* sorted_times of generate_complete_report.
SortedTimes(results_table) == SortedByTime(TimePairs(Items(results_table, 1)))

\* The lines the report has for the algorithms: rank, name and the time in
\* ms, or the marker ERROR.
RECURSIVE ReportLines(_, _)
ReportLines(sorted_times, i) ==
    IF i > Len(sorted_times)
    THEN <<>>
    ELSE <<IF sorted_times[i][2] # Infinity
           THEN [i |-> i, name |-> sorted_times[i][1], ms |-> sorted_times[i][2] * 1000]
           ELSE [i |-> i, name |-> sorted_times[i][1], marker |-> "ERROR"]>>
             \o ReportLines(sorted_times, i + 1)

\* An analyzer has loaded its file and generate_complete_report is called.
ReportInit ==
    /\ BenchInit(ReportFiles)
    /\ side = "called"
    /\ authors \in {column \in ReportAuthorColumns : Len(column) \in {0, Len(df)}}
    /\ top_n = 0
    /\ top_authors = <<>>
    /\ ReportRest
    /\ YearRest
    /\ CleanRest

\* results = self.run_all_algorithms(): any of the algorithms may raise.
RunAllAlgorithms ==
    /\ side = "called"
    /\ \E failed \in SUBSET AlgorithmNames, elapsed \in ElapsedTimes :
          table' = ResultTable(df, failed, elapsed)
    /\ side' = "ran"
    /\ UNCHANGED <<bench, yearVars, authorVars, chart, exported, times_report, cleanVars>>

\* self.create_time_comparison_chart(results, chart_path)
CreateChart ==
    /\ side = "ran"
    /\ ChartData(table) # <<>>
    /\ chart' = ChartData(table)
    /\ side' = "charted"
    /\ UNCHANGED <<bench, yearVars, authorVars, table, exported, times_report, cleanVars>>

\* names, times = zip(*sorted_data) with nothing in sorted_data: ValueError,
\* which neither create_time_comparison_chart nor generate_complete_report
\* catches.
ChartRaises ==
    /\ side = "ran"
    /\ ChartData(table) = <<>>
    /\ side' = "raised"
    /\ UNCHANGED <<bench, yearVars, authorVars, reportVars, cleanVars>>

\* top_authors = self.get_top_authors(15); top_authors.to_csv(authors_path)
SaveTopAuthors ==
    /\ side = "charted"
    /\ top_n' = 15
    /\ top_authors' = get_top_authors(authors, 15)
    /\ side' = "authored"
    /\ UNCHANGED <<bench, yearVars, authors, reportVars, cleanVars>>

\* self.save_sorted_results(results, f"{output_base}_sorted_data")
SaveSortedResults ==
    /\ side = "authored"
    /\ exported' = save_sorted_results(table, output_base \o "_sorted_data")
    /\ side' = "saved"
    /\ UNCHANGED <<bench, yearVars, authorVars, table, chart, times_report, cleanVars>>

\* The with block that writes the times report; generate_complete_report
\* returns.
WriteTimesReport ==
    /\ side = "saved"
    /\ times_report' = ReportLines(SortedTimes(table), 1)
    /\ side' = "returned"
    /\ UNCHANGED <<bench, yearVars, authorVars, table, chart, exported, cleanVars>>

ReportNext ==
    \/ RunAllAlgorithms
    \/ CreateChart
    \/ ChartRaises
    \/ SaveTopAuthors
    \/ SaveSortedResults
    \/ WriteTimesReport

ReportSpec == ReportInit /\ [][ReportNext]_vars

\* ------------------------------------------------- DataCleaner (limepza.py)

\* The characters r'[\r\n\t]' and r'\s' stand for.
ControlChars == {13, 10, 9}

Whitespace == {9, 10, 11, 12, 13, 32}

\* re.sub(class+, ' ', s), from position i: every run of characters of the
\* class becomes one space.
RECURSIVE ReplaceRuns(_, _, _)
ReplaceRuns(s, i, class) ==
    IF i > Len(s)
    THEN <<>>
    ELSE (IF s[i] \notin class
          THEN <<s[i]>>
          ELSE IF i > 1 /\ s[i - 1] \in class THEN <<>> ELSE <<32>>)
             \o ReplaceRuns(s, i + 1, class)

clean_text(text) ==
    IF IsNa(text) \/ text = <<>>
    THEN <<>>
    ELSE Strip(ReplaceRuns(ReplaceRuns(text, 1, ControlChars), 1, Whitespace))

normalize_title(title) ==
    IF IsNa(title) \/ title = <<>>
    THEN <<>>
    ELSE LET normalized == SelectSeq(Lower(title),
                                     LAMBDA c : IsWordChar(c) \/ c \in Whitespace)
         IN  Strip(ReplaceRuns(normalized, 1, Whitespace))

\* str(value): 'nan' for a missing value.
Str(value) == IF IsNa(value) THEN <<110, 97, 110>> ELSE value

\* hashlib.md5(combined).hexdigest(): one digest per string; the strings that
\* occur here are short and different ones have different digests.
MD5(combined) == <<"md5", combined>>

create_duplicate_key(row) ==
    LET title    == normalize_title(row.title)
        doi      == Strip(Lower(Str(row.doi)))
        authors_ == Strip(Lower(Str(row.authors)))
    IN  MD5(title \o <<124>> \o doi \o <<124>> \o authors_)

\* duplicate_groups[key].append(idx), the list being created when the key is
\* new; the groups are kept in the order in which their keys came.
AddToGroup(groups, key, idx) ==
    IF \E g \in 1..Len(groups) : groups[g].key = key
    THEN [g \in 1..Len(groups) |->
             IF groups[g].key = key
             THEN [key |-> key, indices |-> Append(groups[g].indices, idx)]
             ELSE groups[g]]
    ELSE Append(groups, [key |-> key, indices |-> <<idx>>])

\* The loop of identify_duplicates over the rows (idx, row) from position p.
RECURSIVE DuplicateGroups(_, _, _)
DuplicateGroups(work, p, groups) ==
    IF p > Len(work)
    THEN groups
    ELSE DuplicateGroups(work, p + 1,
                         AddToGroup(groups, create_duplicate_key(work[p].row), work[p].idx))

\* identify_duplicates(df): the groups of more than one index.
identify_duplicates(work) ==
    SelectSeq(DuplicateGroups(work, 1, <<>>), LAMBDA group : Len(group.indices) > 1)

\* clean_data that keeps the last index of a group.
KeepLast(indices) ==
    [keep_idx |-> indices[Len(indices)], remove_indices |-> SubSeq(indices, 1, Len(indices) - 1)]

\* keep_idx = indices[0]; remove_indices = indices[1:]
KeepFirst(indices) ==
    [keep_idx |-> indices[1], remove_indices |-> Tail(indices)]

\* PASO 5 of clean_data: the pairs (remove_idx, keep_idx), in the order in
\* which the indices are appended to indices_to_remove.
RECURSIVE Removals(_)
Removals(duplicates) ==
    IF duplicates = <<>>
    THEN <<>>
    ELSE LET choice == KeepFirst(duplicates[1].indices)
         IN  [r \in 1..Len(choice.remove_indices) |->
                 <<choice.remove_indices[r], choice.keep_idx>>]
                 \o Removals(Tail(duplicates))

\* kept_title_str[:100] + ("..." if len(kept_title_str) > 100 else "")
ShortTitle(title) ==
    IF Len(title) > 100 THEN SubSeq(title, 1, 100) \o <<46, 46, 46>> ELSE title

\* The text columns of a row cleaned: df_work[col].apply(self.clean_text).
CleanRow(row) ==
    [title |-> clean_text(row.title), doi |-> row.doi, authors |-> clean_text(row.authors)]

\* The row of the frame that has the index label idx.
RowAt(work, idx) == (CHOOSE r \in {work[p] : p \in 1..Len(work)} : r.idx = idx).row

\* clean_data(): what it leaves in df_clean, duplicate_info and
\* cleaning_stats, and the index of df_work before it is reset.
clean_data(original, stats) ==
    LET copied     == [p \in 1..Len(original) |-> [idx |-> p - 1, row |-> CleanRow(original[p])]]
        titled     == SelectSeq(copied, LAMBDA r : Strip(r.row.title) # <<>>)
        duplicates == identify_duplicates(titled)
        removals   == Removals(duplicates)
        to_remove  == {removals[r][1] : r \in 1..Len(removals)}
        info       == [idx \in to_remove |->
                          LET keep_idx == (CHOOSE r \in 1..Len(removals) :
                                               removals[r][1] = idx)
                          IN  [reason             |-> "DUPLICADO",
                               kept_index         |-> removals[keep_idx][2],
                               duplicate_of_title |->
                                   ShortTitle(RowAt(titled, removals[keep_idx][2]).title)]]
        dropped    == SelectSeq(titled, LAMBDA r : r.idx \notin to_remove)
    IN  [df_clean       |-> [p \in 1..Len(dropped) |-> dropped[p].row],
         index          |-> [p \in 1..Len(dropped) |-> dropped[p].idx],
         duplicate_info |-> info,
         cleaning_stats |->
             [original_count          |-> stats.original_count,
              clean_count             |-> Len(dropped),
              duplicates_removed      |-> Len(removals),
              empty_titles_removed    |-> Len(copied) - Len(titled),
              invalid_records_removed |-> stats.invalid_records_removed]]

\* df_with_info['title'].str.strip() == '': a missing title stays missing
\* under .str.strip() and is not equal to ''.
EmptyTitleMask(title) == ~IsNa(title) /\ Strip(title) = <<>>

\* create_removal_info_column(): the column removal_info, the labels of the
\* duplicates first, those of the empty titles over them, CONSERVADO where
\* none was put.
create_removal_info_column(original, info) ==
    [p \in 1..Len(original) |->
        LET idx       == p - 1
            duplicate == IF idx \in DOMAIN info /\ idx < Len(original)
                         THEN "ELIMINADO - " \o info[idx].reason
                                  \o ": Duplicado del índice "
                                  \o ToString(info[idx].kept_index)
                         ELSE ""
            emptied   == IF EmptyTitleMask(original[p].title)
                         THEN "ELIMINADO - TÍTULO VACÍO"
                         ELSE duplicate
        IN  IF emptied = "" THEN "CONSERVADO" ELSE emptied]

\* The rows (title, doi, authors) a file may hold: 'A b' and 'a  B!' with
\* the same doi and authors up to capitals, 'A b' without doi, a row without
\* title, one whose title is a space and a tab, and '!!' and '?', which are
\* not empty and normalize to nothing.
CleanRecordPool ==
    {[title |-> <<65, 32, 98>>,         doi |-> <<49, 48, 46, 49>>, authors |-> <<88>>],
     [title |-> <<97, 32, 32, 66, 33>>, doi |-> <<49, 48, 46, 49>>, authors |-> <<120, 32>>],
     [title |-> <<65, 32, 98>>,         doi |-> NaN,                authors |-> <<88>>],
     [title |-> NaN,                    doi |-> <<49, 48, 46, 49>>, authors |-> <<88>>],
     [title |-> <<32, 9>>,              doi |-> NaN,                authors |-> NaN],
     [title |-> <<33, 33>>,             doi |-> <<49, 48, 46, 49>>, authors |-> <<88>>],
     [title |-> <<63>>,                 doi |-> <<49, 48, 46, 49>>, authors |-> <<88>>]}

CleanFiles == UNION {[1..n -> CleanRecordPool] : n \in 0..MaxCleanRecords}

\* DataCleaner(input_file) and load_data() have run.
CleanInit ==
    /\ side = "loaded"
    /\ df_original \in CleanFiles
    /\ df_clean = <<>>
    /\ kept = <<>>
    /\ duplicate_info = <<>>
    /\ cleaning_stats = InitialStats(Len(df_original))
    /\ removal_info = <<>>
    /\ BenchRest
    /\ YearRest
    /\ AuthorRest
    /\ ReportRest

\* self.clean_data()
CleanData ==
    /\ side = "loaded"
    /\ LET cleaned == clean_data(df_original, cleaning_stats)
       IN  /\ df_clean' = cleaned.df_clean
           /\ kept' = cleaned.index
           /\ duplicate_info' = cleaned.duplicate_info
           /\ cleaning_stats' = cleaned.cleaning_stats
    /\ side' = "cleaned"
    /\ UNCHANGED <<bench, yearVars, authorVars, reportVars, df_original, removal_info>>

\* self.create_removal_info_column()
CreateRemovalInfoColumn ==
    /\ side = "cleaned"
    /\ removal_info' = create_removal_info_column(df_original, duplicate_info)
    /\ side' = "returned"
    /\ UNCHANGED <<bench, yearVars, authorVars, reportVars, df_original, df_clean, kept,
                   duplicate_info, cleaning_stats>>

CleanNext ==
    \/ CleanData
    \/ CreateRemovalInfoColumn

CleanSpec == CleanInit /\ [][CleanNext]_vars

\* ------------------------------------------------------------------ claims

\* The running method has done its sorting work and not yet returned.
AfterSort == pc = "loop" /\ ip > 0 /\ Statement \in {"stop", "build"}

IndexValues(list) == {list[p][3] : p \in 1..Len(list)}

IndexCount(list, v) == Cardinality({p \in 1..Len(list) : list[p][3] = v})

SameIndexMultiset(a, b) ==
    \A v \in IndexValues(a) \cup IndexValues(b) : IndexCount(a, v) = IndexCount(b, v)

\* The algorithms that have an entry with a time other than float('inf').
Completed == {a \in DOMAIN results : results[a].time # Infinity}

\* The (year, normalized title) of a row of a frame.
RowKey(row) == <<row.year, Strip(Lower(row.title_clean))>>

Projection(frame) == [p \in 1..Len(frame) |-> RowKey(frame[p])]

RowsOrdered(frame) ==
    \A p \in 1..(Len(frame) - 1) :
        ~KeyLess("year_title", RowKey(frame[p + 1]), RowKey(frame[p]))

\* C1: in every method, the list handed to _build_result_dataframe holds the
\* same multiset of original_index values as the list that
\* _create_sortable_data produced: none created, dropped or duplicated.
PermutationProperty ==
    AfterSort => SameIndexMultiset(sorted_data, data)

PermutationWitness ==
    /\ AfterSort
    /\ Statement = "build"
    /\ Current = "BinaryInsertionSort"
    /\ Len(data) >= 3
    /\ sorted_data # data

\* C2: when run_all_algorithms has returned, every adjacent pair (a, b) of
\* rows of every completed algorithm's frame satisfies
\* (year(a), title(a)) <= (year(b), title(b)).
OrderCorrectness ==
    pc = "done" => \A a \in Completed : RowsOrdered(results[a].df)

OrderWitness ==
    /\ pc = "done"
    /\ failures = 0
    /\ Len(df) >= 3
    /\ results["HeapSort"].df # df

\* The three records of the end-to-end scenario, as loaded.
ScenarioFrame ==
    load_data(
        <<[title            |-> <<90, 101, 98, 114, 97, 32, 83, 116, 117, 100, 121>>,
           publication_date |-> <<50, 48, 50, 48>>],
          [title            |-> <<65, 112, 112, 108, 101, 32, 83, 116, 117, 100, 121>>,
           publication_date |-> <<50, 48, 49, 57>>],
          [title            |-> <<77, 97, 110, 103, 111, 32, 83, 116, 117, 100, 121>>,
           publication_date |-> <<50, 48, 49, 57>>]>>)

\* apple study (2019), mango study (2019), zebra study (2020)
ScenarioOrder ==
    << <<2019, <<97, 112, 112, 108, 101, 32, 115, 116, 117, 100, 121>> >>,
       <<2019, <<109, 97, 110, 103, 111, 32, 115, 116, 117, 100, 121>> >>,
       <<2020, <<122, 101, 98, 114, 97, 32, 115, 116, 117, 100, 121>> >> >>

NoDuplicateKeys(frame) ==
    \A i, j \in 1..Len(frame) : i # j => RowKey(frame[i]) # RowKey(frame[j])

\* C3: on an input without two records of the same (year, title), all
\* completed algorithms return the same sequence of (year, title); on the
\* scenario's three records each returns Apple, Mango, Zebra.
CrossAlgorithmAgreement ==
    pc = "done" =>
        /\ NoDuplicateKeys(df) =>
              Cardinality({Projection(results[a].df) : a \in Completed}) <= 1
        /\ df = ScenarioFrame =>
              \A a \in Completed : Projection(results[a].df) = ScenarioOrder

AgreementWitness ==
    /\ pc = "done"
    /\ failures = 0
    /\ df = ScenarioFrame
    /\ Completed = AlgorithmNames

\* C4: the list bitonic_sort hands to _build_result_dataframe has exactly n
\* entries, none of them the padding entry and none with index -1.
BitonicPaddingIntegrity ==
    (AfterSort /\ Current = "BitonicSort") =>
        /\ Len(sorted_data) = Len(data)
        /\ \A p \in 1..Len(sorted_data) :
              sorted_data[p] # max_item /\ sorted_data[p][3] # -1

BitonicPaddingWitness ==
    /\ AfterSort
    /\ Current = "BitonicSort"
    /\ Statement = "build"
    /\ Len(data) = 3
    /\ NextPowerOf2(Len(data)) > Len(data)

\* The frame an algorithm returns in a run in which nothing raises.
ExpectedFrame(name) ==
    LET keys == create_sortable_data(df)
    IN  IF ReturnsCopy(name, keys)
        THEN df
        ELSE build_result_dataframe(df, SortWork(name, keys))

\* C5: when run_all_algorithms has returned, every algorithm has an entry
\* and was invoked, there is an entry (None, inf) for each error raised, and
\* every other entry is the one of a run without errors.
FailureIsolation ==
    pc = "done" =>
        /\ \A a \in AlgorithmNames :
              /\ a \in DOMAIN results
              /\ calls[a] = 1
              /\ results[a].time = Infinity => results[a].df = None
              /\ results[a].time # Infinity => results[a].df = ExpectedFrame(a)
        /\ Cardinality(AlgorithmNames \ Completed) = failures

FailureIsolationWitness ==
    /\ pc = "done"
    /\ failures = 1
    /\ results["TimSort"] = [df |-> None, time |-> Infinity]
    /\ Len(df) >= 2

\* C6: each registered algorithm is invoked at most once, only after all
\* algorithms before it in the registry have their entry, and when
\* run_all_algorithms has returned each has been invoked exactly once and the
\* table has exactly twelve entries, one per name.
SequentialOnce ==
    /\ \A i \in 1..Len(Algorithms) :
          /\ calls[Algorithms[i]] <= 1
          /\ calls[Algorithms[i]] = 1 =>
                \A j \in 1..(i - 1) : Algorithms[j] \in DOMAIN results
          /\ Algorithms[i] \in DOMAIN results => calls[Algorithms[i]] = 1
    /\ pc = "done" =>
          /\ \A a \in AlgorithmNames : calls[a] = 1
          /\ DOMAIN results = AlgorithmNames
          /\ Cardinality(DOMAIN results) = 12

SequentialOnceWitness ==
    /\ pc = "done"
    /\ failures = MaxFailures
    /\ results["RadixSort"].time # Infinity
    /\ Cardinality(Completed) < 12

\* C7: without forced errors, on an empty frame every algorithm has an entry
\* with an empty frame and a time other than inf, and on a frame of one
\* record every algorithm returns that record.
DegenerateInputs ==
    (pc = "done" /\ failures = 0 /\ Len(df) <= 1) =>
        \A a \in AlgorithmNames :
            /\ a \in DOMAIN results
            /\ results[a].time # Infinity
            /\ results[a].df = df

DegenerateWitness ==
    /\ pc = "done"
    /\ failures = 0
    /\ Len(df) = 0
    /\ DOMAIN results = AlgorithmNames

\* C9: while a method's timer runs its key list has been created and its
\* result frame not yet built, no key list is created and no frame is built
\* during that time, and the time recorded is that of the sorting work alone
\* (one tick of the clock).
TimingDiscipline ==
    /\ [](timing => (pc = "loop" /\ ip > 0 /\ extractions = k /\ builds + failures = k - 1))
    /\ [](\A a \in Completed : results[a].time = 1)
    /\ [][timing => (extractions' = extractions /\ builds' = builds)]_vars

TimingWitness ==
    /\ timing
    /\ Current = "BitonicSort"
    /\ Statement = "stop"
    /\ Len(data) = 3

\* C10 as stated: when run_all_algorithms has returned, the key list has been
\* derived from the records exactly once.
KeyExtractionOnce == pc = "done" => extractions = 1

\* C10 as amended: every method derives its own key list when it is entered,
\* so the list has been derived once per algorithm invoked, twelve times when
\* run_all_algorithms has returned, and the list a method is about to sort is
\* the one derived from the records as loaded.
KeyExtractionPerAlgorithm ==
    /\ pc = "idle" => extractions = 0
    /\ pc = "loop" => extractions = (IF ip > 1 THEN k ELSE k - 1)
    /\ pc = "done" => extractions = 12
    /\ (pc = "loop" /\ ip > 0 /\ Statement = "sort") => data = create_sortable_data(df)

KeyExtractionWitness ==
    /\ pc = "done"
    /\ extractions = Len(Algorithms)
    /\ Len(df) >= 1

\* C8: termination with equal keys: on every input file, also one whose
\* records all have one (year, title) key, every method reaches the end of
\* its sorting work: no method is left by an error before that, and so the
\* while loop of comb_sort, the pointer loop of gnome_sort, the recursion of
\* quick_sort and the insertion recursion of tree_sort each reach their end
\* and leave a frame in results (checked where the loops are followed step by
\* step and no error is forced).
TerminationEqualKeys ==
    \A a \in DOMAIN results : results[a].df # None

\* The pairs of a list that are out of order.
Inversions(list) ==
    Cardinality({pr \in (1..Len(list)) \X (1..Len(list)) :
                   pr[1] < pr[2] /\ TupleLess(list[pr[2]], list[pr[1]])})

RECURSIVE StackWeight(_)
StackWeight(stack) ==
    IF Len(stack) = 0
    THEN 0
    ELSE 2 * Max({0, stack[1][2] - stack[1][1] + 1}) + 1 + StackWeight(Tail(stack))

\* What is left of a loop: a number that is never negative.
LoopRank(l) ==
    CASE l.method = "CombSort" ->
           2 * Inversions(l.data) + l.gap + (IF l.sorted_flag THEN 0 ELSE 2)
      [] l.method = "GnomeSort" ->
           2 * Inversions(l.data) + Len(l.data) - l.index
      [] l.method = "QuickSort" ->
           StackWeight(l.stack)
      [] l.method = "TreeSort" ->
           (Len(l.data) + 1 - l.item) * (Len(l.data) + 2) - Len(l.path)
      [] OTHER -> 0

\* No loop goes on for ever: every step of a loop leaves less of it, and every
\* other step takes the run to a later statement or a later method.
LoopsDecrease ==
    [][\/ pc' # pc
       \/ k' > k
       \/ k' = k /\ ip' > ip
       \/ locals.method = "none" /\ locals'.method # "none"
       \/ /\ locals'.method = locals.method
          /\ LoopRank(locals') < LoopRank(locals)
          /\ LoopRank(locals') >= 0]_vars

\* Followed step by step, a loop that reaches its end has the list that the
\* method computes at once.
StepsAgree ==
    (LoopEnded(locals) /\ ~TooDeep(locals)) => LoopResult(locals) = SortWork(Current, data)


\* The key the extractor gives the p-th row of a frame.
KeyOfRow(frame, p) == <<frame[p].year, Strip(Lower(frame[p].title_clean)), p - 1>>

\* C11: the loaded records (rows, their order, their columns) are changed by no
\* step of a run, whatever ran or raised before; and the key list a method is
\* about to sort is a list of its own in the order of the input: its p-th
\* key is the key of the p-th loaded record, with index p - 1.
RecordImmutability ==
    /\ [][df' = df]_vars
    /\ []((pc = "loop" /\ ip > 0 /\ Statement = "sort") =>
             /\ Len(data) = Len(df)
             /\ \A p \in 1..Len(df) : data[p] = KeyOfRow(df, p))

RecordImmutabilityWitness ==
    /\ pc = "loop"
    /\ ip > 0
    /\ Statement = "sort"
    /\ Current = "QuickSort"
    /\ failures = 1
    /\ results["CombSort"].df = None
    /\ results["TreeSort"].df # df
    /\ Len(df) = MaxRecords
    /\ \A p \in 1..Len(df) : data[p][3] = p - 1


\* The four characters of s from position p read 19dd or 20dd.
ReadsAsYear(s, p) ==
    /\ p >= 1
    /\ p + 3 <= Len(s)
    /\ SubSeq(s, p, p + 1) \in {<<49, 57>>, <<50, 48>>}
    /\ s[p + 2] \in 48..57
    /\ s[p + 3] \in 48..57

YearValue(s, p) ==
    1000 * (s[p] - 48) + 100 * (s[p + 1] - 48) + 10 * (s[p + 2] - 48) + (s[p + 3] - 48)

\* The four characters stand alone: no letter, digit or underscore is next to
\* them.
StandsAlone(s, p) ==
    /\ p = 1 \/ ~IsWordChar(s[p - 1])
    /\ p + 3 = Len(s) \/ ~IsWordChar(s[p + 4])

\* C12 as stated: _extract_year returns the value of the first 4-digit
\* substring of the form 19dd or 20dd found anywhere in the string, and 0 when
\* the date is missing, empty or has no such substring.
YearIsFirstSubstring ==
    side = "returned" =>
        IF IsNa(date_str) \/ \A p \in 1..Len(date_str) : ~ReadsAsYear(date_str, p)
        THEN year = 0
        ELSE \E p \in 1..Len(date_str) :
                /\ ReadsAsYear(date_str, p)
                /\ \A q \in 1..(p - 1) : ~ReadsAsYear(date_str, q)
                /\ year = YearValue(date_str, p)

\* C12 as amended: _extract_year returns the value of the first 19dd or 20dd
\* that stands alone in the string (no letter, digit or underscore right
\* before or after it), whatever follows it, and 0 when the date is missing,
\* empty or has no such number; 'Published 2019-05' gives 2019.
YearIsFirstWholeNumber ==
    side = "returned" =>
        /\ year = 0 \/ year \in 1900..2099
        /\ year = 0 =>
              \/ IsNa(date_str)
              \/ \A p \in 1..Len(date_str) :
                     ~(ReadsAsYear(date_str, p) /\ StandsAlone(date_str, p))
        /\ year # 0 =>
              /\ ~IsNa(date_str)
              /\ \E p \in 1..Len(date_str) :
                    /\ ReadsAsYear(date_str, p) /\ StandsAlone(date_str, p)
                    /\ year = YearValue(date_str, p)
                    /\ \A q \in 1..(p - 1) :
                          ~(ReadsAsYear(date_str, q) /\ StandsAlone(date_str, q))
        /\ date_str = PublishedDate => year = 2019

\* "1987 2019" has given 1987: the later year is ignored.
YearWitness ==
    /\ side = "returned"
    /\ date_str = <<49, 57, 56, 55, 32, 50, 48, 49, 57>>
    /\ year = 1987


LowerChar(c) == IF c >= 65 /\ c <= 90 THEN c + 32 ELSE c

\* t is s in lower case without the whitespace at its two ends.
IsTrimmedLowerOf(t, s) ==
    \E a \in 0..Len(s) :
        /\ Len(t) <= Len(s) - a
        /\ \A i \in 1..a : IsSpace(s[i])
        /\ \A i \in (a + Len(t) + 1)..Len(s) : IsSpace(s[i])
        /\ \A i \in 1..Len(t) : t[i] = LowerChar(s[a + i])
        /\ Len(t) > 0 => (~IsSpace(t[1]) /\ ~IsSpace(t[Len(t)]))

\* No year can be read from the date.
Unparsable(d) ==
    IsNa(d) \/ \A p \in 1..Len(d) : ~(ReadsAsYear(d, p) /\ StandsAlone(d, p))

\* C13: _create_sortable_data returns one key per record, in input order:
\* the k-th key has original_index k (counted from 0) and the lower-cased,
\* trimmed title of the k-th record, and a record without title whose date is
\* missing or unparsable gives (0, "", k).
KeyExtractorShape ==
    side = "returned" =>
        /\ Len(data) = Len(df)
        /\ \A p \in 1..Len(df) :
              /\ Len(data[p]) = 3
              /\ data[p][3] = p - 1
              /\ IF IsNa(df[p].title)
                 THEN data[p][2] = <<>>
                 ELSE IsTrimmedLowerOf(data[p][2], df[p].title)
              /\ Unparsable(df[p].publication_date) => data[p][1] = 0
              /\ (IsNa(df[p].title) /\ Unparsable(df[p].publication_date))
                    => data[p] = <<0, <<>>, p - 1>>

KeyExtractorWitness ==
    /\ side = "returned"
    /\ Len(df) = 3
    /\ data[1] = <<2019, <<97, 98>>, 0>>
    /\ data[2] = <<0, <<>>, 1>>
    /\ IsNa(df[3].title) /\ df[3].publication_date = <<50, 48, 49, 57, 53>>
    /\ data[3] = <<0, <<>>, 2>>


\* The stretches (first, last) of a field between its semicolons.
Segments(s) ==
    {seg \in (1..(Len(s) + 1)) \X (0..Len(s)) :
        /\ seg[2] >= seg[1] - 1
        /\ seg[1] = 1 \/ s[seg[1] - 1] = 59
        /\ seg[2] = Len(s) \/ s[seg[2] + 1] = 59
        /\ \A q \in seg[1]..seg[2] : s[q] # 59}

\* The places (field, first, last) of a column at which an author is named.
Mentions(column) ==
    {m \in (1..Len(column)) \X (1..9) \X (0..8) :
        /\ ~IsNa(column[m[1]])
        /\ <<m[2], m[3]>> \in Segments(column[m[1]])
        /\ Strip(SubSeq(column[m[1]], m[2], m[3])) # <<>>}

NameAt(column, m) == Strip(SubSeq(column[m[1]], m[2], m[3]))

AuthorNames(column) == {NameAt(column, m) : m \in Mentions(column)}

Appearances(column, name) ==
    Cardinality({m \in Mentions(column) : NameAt(column, m) = name})

\* Name a is met before name b when the column is read through.
MetFirst(column, a, b) ==
    \E ma \in Mentions(column) :
        /\ NameAt(column, ma) = a
        /\ \A mb \in Mentions(column) :
              NameAt(column, mb) = b =>
                  (ma[1] < mb[1] \/ (ma[1] = mb[1] /\ ma[2] < mb[2]))

\* Name a comes before name b in the table.
Outranks(column, a, b) ==
    \/ Appearances(column, a) > Appearances(column, b)
    \/ Appearances(column, a) = Appearances(column, b) /\ MetFirst(column, a, b)

\* C14: get_top_authors(N) counts, for each name as it stands between the
\* semicolons of the authors fields once trimmed (empty ones dropped, capitals
\* told apart), how often it appears, and returns the N first names (all of
\* them when there are fewer) by descending count, equal counts in the order
\* in which the names were first met; 'A; B', 'B; C', 'A' give A:2, B:2, C:1.
AuthorFrequency ==
    side = "returned" =>
        /\ Len(top_authors) = Min({top_n, Cardinality(AuthorNames(authors))})
        /\ \A i \in 1..Len(top_authors) :
              /\ top_authors[i][1] \in AuthorNames(authors)
              /\ top_authors[i][2] = Appearances(authors, top_authors[i][1])
              /\ \A j \in (i + 1)..Len(top_authors) :
                    Outranks(authors, top_authors[i][1], top_authors[j][1])
              /\ \A name \in AuthorNames(authors) :
                    name \notin {top_authors[j][1] : j \in 1..Len(top_authors)}
                        => Outranks(authors, top_authors[i][1], name)
        /\ (authors = <<<<65, 59, 32, 66>>, <<66, 59, 32, 67>>, <<65>>>> /\ top_n = 3)
              => top_authors = << <<<<65>>, 2>>, <<<<66>>, 2>>, <<<<67>>, 1>> >>

\* ' a ;;B; ', 'B; C', 'C;C' with N = 2: B and C, C's three beating B's two,
\* and a left out.
AuthorFrequencyWitness ==
    /\ side = "returned"
    /\ top_n = 2
    /\ authors = <<<<32, 97, 32, 59, 59, 66, 59, 32>>, <<66, 59, 32, 67>>, <<67, 59, 67>>>>
    /\ top_authors = << <<<<67>>, 3>>, <<<<66>>, 2>> >>


\* The algorithms that failed in the table the report is made from.
FailedInTable == {a \in DOMAIN table : table[a].time = Infinity}

IsErrorLine(line) == "marker" \in DOMAIN line /\ line.marker = "ERROR"

\* C15: the times report generate_complete_report writes lists each of the
\* twelve algorithm names exactly once, in ascending order of elapsed time;
\* an algorithm whose time is infinite is listed with the marker ERROR in
\* place of a time, the others with their time in ms, and so the ERROR lines
\* come after all the others.
TimingReport ==
    side = "returned" =>
        /\ Len(times_report) = Len(Algorithms)
        /\ {times_report[i].name : i \in 1..Len(times_report)} = AlgorithmNames
        /\ \A i \in 1..Len(times_report) :
              /\ times_report[i].i = i
              /\ IsErrorLine(times_report[i]) <=> times_report[i].name \in FailedInTable
              /\ ~IsErrorLine(times_report[i]) =>
                    times_report[i].ms = table[times_report[i].name].time * 1000
              /\ \A j \in (i + 1)..Len(times_report) :
                    /\ table[times_report[i].name].time <= table[times_report[j].name].time
                    /\ IsErrorLine(times_report[i]) => IsErrorLine(times_report[j])

\* A report in which RadixSort, the last of the table, is the fastest and is
\* listed first, and TimSort and QuickSort failed and are listed last.
TimingReportWitness ==
    /\ side = "returned"
    /\ FailedInTable = {"TimSort", "QuickSort"}
    /\ times_report[1].name = "RadixSort"
    /\ ~IsErrorLine(times_report[10])
    /\ times_report[11] = [i |-> 11, name |-> "TimSort", marker |-> "ERROR"]
    /\ times_report[12] = [i |-> 12, name |-> "QuickSort", marker |-> "ERROR"]

\* C16: whatever subset of the twelve algorithms failed, from none to all,
\* generate_complete_report does not raise: the errors of the algorithms are
\* not raised further.
ErrorsNeverRaisedFurther == side # "raised"

\* The file save_sorted_results writes for an algorithm.
SortedFile(name) == "academic_sorting_analysis_sorted_data/" \o name \o "_sorted.csv"

ExportedFiles == {exported[i].file : i \in 1..Len(exported)}

\* The frame holds the rows of the loaded frame, each as often, and in order
\* of (year, title).
HoldsInputRowsInOrder(frame) ==
    /\ Len(frame) = Len(df)
    /\ \A row \in {df[p] : p \in 1..Len(df)} :
          Cardinality({p \in 1..Len(frame) : frame[p] = row})
              = Cardinality({p \in 1..Len(df) : df[p] = row})
    /\ RowsOrdered(frame)

\* C17 as stated: save_sorted_results after run_all_algorithms yields exactly
\* twelve exported datasets, one per algorithm of the table and named by it,
\* each holding the input rows in that algorithm's order.
ExportPerAlgorithm ==
    side \in {"saved", "returned"} =>
        /\ Len(exported) = Len(Algorithms)
        /\ ExportedFiles = {SortedFile(a) : a \in AlgorithmNames}
        /\ \A i \in 1..Len(exported) : HoldsInputRowsInOrder(exported[i].frame)

\* C17, amended: save_sorted_results yields one exported dataset for each
\* algorithm of the table that completed (its frame is not None) and none for
\* one that failed; the dataset is in the file <name>_sorted.csv and is the
\* frame of that algorithm, which holds the input rows in its order. There
\* are twelve datasets exactly when no algorithm failed.
ExportPerCompletedAlgorithm ==
    side \in {"saved", "returned"} =>
        /\ Len(exported) = Len(Algorithms) - Cardinality(FailedInTable)
        /\ ExportedFiles = {SortedFile(a) : a \in AlgorithmNames \ FailedInTable}
        /\ \A a \in AlgorithmNames \ FailedInTable :
              \E i \in 1..Len(exported) :
                  /\ exported[i].file = SortedFile(a)
                  /\ exported[i].frame = table[a].df
        /\ \A i \in 1..Len(exported) : HoldsInputRowsInOrder(exported[i].frame)

\* TreeSort and QuickSort failed on a file of two rows that are out of order:
\* ten datasets, the rows in order in each of them.
ExportWitness ==
    /\ side = "saved"
    /\ Len(df) = 2
    /\ FailedInTable = {"TreeSort", "QuickSort"}
    /\ Len(exported) = 10
    /\ exported[1].file = "academic_sorting_analysis_sorted_data/TimSort_sorted.csv"
    /\ exported[1].frame = <<df[2], df[1]>>


\* The title is neither missing nor made of whitespace only.
NonEmptyTitle(title) == ~IsNa(title) /\ \E q \in 1..Len(title) : title[q] \notin Whitespace

\* The records (by position) of the original dataset with a non-empty title.
Titled == {i \in 1..Len(df_original) : NonEmptyTitle(df_original[i].title)}

\* The duplicate key clean_data gives the record.
DuplicateKey(i) == create_duplicate_key(CleanRow(df_original[i]))

\* The first record of the group the record belongs to.
FirstOfGroup(i) == Min({j \in Titled : DuplicateKey(j) = DuplicateKey(i)})

\* The records (by position) kept in the clean dataset.
KeptRecords == {kept[p] + 1 : p \in 1..Len(kept)}

\* C18: after clean_data, of every group of records with non-empty titles
\* that share a duplicate key the clean dataset holds the first one (lowest
\* original index) and none of the others; a record with a non-empty title
\* whose key is unique is kept; the records kept appear once each, cleaned,
\* in their original order.
DeduplicationKeepsFirst ==
    side \in {"cleaned", "returned"} =>
        /\ \A i \in Titled : i \in KeptRecords <=> i = FirstOfGroup(i)
        /\ KeptRecords \subseteq Titled
        /\ Len(df_clean) = Len(kept)
        /\ \A p \in 1..Len(kept) :
              /\ df_clean[p] = CleanRow(df_original[kept[p] + 1])
              /\ \A q \in (p + 1)..Len(kept) : kept[p] < kept[q]

\* 'A b', 'A b' without doi, 'a  B!' and 'A b' again: the first and the
\* second are kept, the third and the fourth are duplicates of the first.
DeduplicationWitness ==
    /\ side = "cleaned"
    /\ Len(df_original) = 4
    /\ df_original[1].title = <<65, 32, 98>>
    /\ df_original[2].title = <<65, 32, 98>>
    /\ df_original[3].title = <<97, 32, 32, 66, 33>>
    /\ df_original[4] = df_original[1]
    /\ kept = <<0, 1>>
    /\ cleaning_stats.duplicates_removed = 2

FloorOfShrunk(gap) == CHOOSE g \in 0..gap : 13 * g <= 10 * gap /\ 10 * gap < 13 * (g + 1)

InComb == locals.method = "CombSort"

\* C20: in comb_sort the gap starts at n; every pass begins by replacing it
\* by floor(gap / 1.3), or by 1 if that is less, so that it is never below 1
\* during a pass; the loop goes on after a pass unless the pass had gap 1 and
\* swapped nothing, and ends after the first pass that did; the list is then
\* sorted.
CombGapSchedule ==
    /\ [][(~InComb /\ InComb') =>
              locals'.gap = Len(locals'.data) /\ ~locals'.sorted_flag]_vars
    /\ [][(InComb /\ InComb' /\ locals' # locals) =>
              /\ ~locals.sorted_flag
              /\ locals'.gap = Max({1, FloorOfShrunk(locals.gap)})
              /\ locals'.gap >= 1
              /\ locals'.sorted_flag <=> (locals'.gap = 1 /\ locals'.data = locals.data)]_vars
    /\ [][(InComb /\ ~InComb') => locals.sorted_flag]_vars
    /\ [](InComb /\ locals.sorted_flag =>
              \A p \in 1..(Len(locals.data) - 1) :
                  TupleLess(locals.data[p], locals.data[p + 1]))

\* Six rows, after the passes of gap 4, 3 and 2 and a pass of gap 1 that
\* swapped: the loop goes on.
CombGapWitness ==
    /\ InComb
    /\ Len(locals.data) = 6
    /\ locals.gap = 1
    /\ ~locals.sorted_flag


\* The call _quick_sort_recursive(arr, low, high) that is made next.
QuickCall == locals.stack[1]

\* C21: when _quick_sort_recursive partitions arr[low..high] (low < high) and
\* _quick_sort_partition returns p, then low <= p <= high, arr[p] is the
\* former arr[high] (the pivot is the last element), the elements of
\* arr[low..p-1] are <= arr[p], those of arr[p+1..high] are > arr[p], the
\* elements outside arr[low..high] are unchanged, and the two calls that
\* follow are on low..p-1 and p+1..high.
LomutoPartition ==
    [][(/\ locals.method = "QuickSort"
        /\ locals'.method = "QuickSort"
        /\ Len(locals.stack) > 0
        /\ QuickCall[1] < QuickCall[2]) =>
           LET low  == QuickCall[1]
               high == QuickCall[2]
               p    == locals'.stack[1][2] + 1
               old  == locals.data
               arr  == locals'.data
           IN  /\ low <= p /\ p <= high
               /\ At(arr, p) = At(old, high)
               /\ \A q \in low..(p - 1) : TupleLessEq(At(arr, q), At(arr, p))
               /\ \A q \in (p + 1)..high : TupleLess(At(arr, p), At(arr, q))
               /\ \A q \in 0..(Len(old) - 1) : (q < low \/ q > high) => At(arr, q) = At(old, q)
               /\ {At(arr, q) : q \in low..high} = {At(old, q) : q \in low..high}
               /\ Len(arr) = Len(old)
               /\ locals'.stack[1][1] = low
               /\ locals'.stack[2][1] = p + 1 /\ locals'.stack[2][2] = high]_vars

\* A partition has been made and the next one is of a sub-range that begins
\* after position 0 and leaves positions out on both sides.
LomutoWitness ==
    /\ locals.method = "QuickSort"
    /\ Len(locals.stack) > 0
    /\ QuickCall[1] >= 1
    /\ QuickCall[1] < QuickCall[2]
    /\ QuickCall[2] < Len(locals.data) - 1
    /\ locals.data # data


\* The first size elements of arr form a max-heap: every parent >= its
\* children.
IsMaxHeap(arr, size) ==
    \A c \in 1..(size - 1) : TupleLessEq(At(arr, c), At(arr, (c - 1) \div 2))

\* C22: in heap_sort, after the build phase the whole array is a max-heap;
\* after the extraction step with loop index i (the loop variable is then
\* i - 1), the prefix arr[0..i-1] is a max-heap, the suffix arr[i..n-1] is
\* sorted ascending and every element of the suffix is >= every element of
\* the prefix.
HeapInvariant ==
    (locals.method = "HeapSort" /\ locals.phase = "extract") =>
        LET arr == locals.data
            n   == Len(arr)
            i   == locals.i + 1
        IN  /\ IsMaxHeap(arr, i)
            /\ \A q \in i..(n - 2) : TupleLessEq(At(arr, q), At(arr, q + 1))
            /\ \A q \in i..(n - 1) : \A r \in 0..(i - 1) : TupleLessEq(At(arr, r), At(arr, q))
            /\ {At(arr, q) : q \in 0..(n - 1)} = {At(data, q) : q \in 0..(n - 1)}

\* Five rows after the extraction steps with loop index 4 and 3: a heap of
\* three before two sorted elements, the list not yet in order.
HeapWitness ==
    /\ locals.method = "HeapSort"
    /\ locals.phase = "extract"
    /\ Len(locals.data) = 5
    /\ locals.i = 2
    /\ TupleLess(At(locals.data, 1), At(locals.data, 0))
    /\ locals.data # data


InRadix == locals.method = "RadixSort"

\* The decimal digit of the year of a key at the place of value exp.
DigitOfYear(key, exp) == (key[1] \div exp) % 10

\* The positions of the keys of list b in list a, both holding the same keys.
PositionIn(a, key) == CHOOSE p \in 1..Len(a) : a[p] = key

\* List b holds the keys of list a ordered by Rank, keys of equal rank in the
\* order they have in a.
StablyOrdered(a, b, Rank(_)) ==
    /\ Len(b) = Len(a)
    /\ {b[p] : p \in 1..Len(b)} = {a[p] : p \in 1..Len(a)}
    /\ \A p \in 1..(Len(b) - 1) :
          \/ Rank(b[p]) < Rank(b[p + 1])
          \/ Rank(b[p]) = Rank(b[p + 1]) /\ PositionIn(a, b[p]) < PositionIn(a, b[p + 1])

\* The number of decimal digits of a year, none for 0.
RECURSIVE DigitsOf(_)
DigitsOf(y) == IF y = 0 THEN 0 ELSE 1 + DigitsOf(y \div 10)

\* C23: in radix_sort every pass of _counting_sort_for_radix orders the list
\* by the current decimal digit of the year and is stable; there is one pass
\* for every decimal digit of the maximum year; after the last pass the keys
\* form runs of equal years in ascending order of the year; every run is
\* then sorted by title alone, and the list is in full (year, title) order.
RadixPassesStable ==
    /\ [][(InRadix /\ InRadix' /\ locals.phase = "passes" /\ locals'.phase = "passes") =>
              /\ locals'.exp = 10 * locals.exp
              /\ StablyOrdered(locals.data, locals'.data,
                               LAMBDA key : DigitOfYear(key, locals.exp))]_vars
    /\ [][(InRadix /\ InRadix' /\ locals.phase = "passes" /\ locals'.phase = "done") =>
              /\ locals.exp = 10 ^ DigitsOf(locals.max_year)
              /\ StablyOrdered(data, locals.data, LAMBDA key : key[1])
              /\ \A y \in Years(data) :
                    SelectSeq(locals'.data, LAMBDA key : key[1] = y)
                        = PySorted(SelectSeq(locals.data, LAMBDA key : key[1] = y), "title")
              /\ \A p \in 1..Len(data) : locals'.data[p][1] = locals.data[p][1]
              /\ \A p \in 1..(Len(data) - 1) :
                    ~KeyLess("year_title", locals'.data[p + 1], locals'.data[p])]_vars

\* The pass on the tens of the years has moved keys, on a file of five rows
\* that has the years 0, 2019 and 2020.
RadixWitness ==
    /\ InRadix
    /\ locals.phase = "passes"
    /\ locals.exp = 100
    /\ Len(data) = 5
    /\ Years(data) = {0, 2019, 2020}
    /\ locals.data # data
    /\ locals.data # counting_sort_for_radix(data, 1)


InInsertion == locals.method = "BinaryInsertionSort"

\* The positions a..b of a list are in ascending order.
AscendingRange(list, a, b) ==
    \A p \in a..(b - 1) : TupleLessEq(At(list, p), At(list, p + 1))

\* The position _binary_search_insertion answers for data[i] in data[0..i-1].
InsertionPos(l) == binary_search_insertion(l.data, At(l.data, l.i), 0, l.i - 1)

\* C24: in binary_insertion_sort the prefix data[0..i-1] is sorted before
\* every iteration; _binary_search_insertion(data, key, 0, i-1) then answers
\* a position pos with 0 <= pos <= i, every element before pos being <= key
\* and every element from pos to i-1 being >= key; after the iteration
\* data[pos..i-1] stands one place to the right, key stands at pos, and
\* data[0..i] is sorted and holds the elements of the former data[0..i].
BinaryInsertionPosition ==
    /\ [](InInsertion => AscendingRange(locals.data, 0, Min({locals.i, Len(locals.data)}) - 1))
    /\ [][(InInsertion /\ InInsertion') =>
             LET old == locals.data
                 new == locals'.data
                 i   == locals.i
                 key == At(old, i)
                 pos == InsertionPos(locals)
             IN  /\ 0 <= pos /\ pos <= i
                 /\ \A p \in 0..(pos - 1) : TupleLessEq(At(old, p), key)
                 /\ \A p \in pos..(i - 1) : TupleLessEq(key, At(old, p))
                 /\ At(new, pos) = key
                 /\ \A p \in 0..(pos - 1) : At(new, p) = At(old, p)
                 /\ \A p \in pos..(i - 1) : At(new, p + 1) = At(old, p)
                 /\ \A p \in (i + 1)..(Len(old) - 1) : At(new, p) = At(old, p)
                 /\ AscendingRange(new, 0, i)
                 /\ {At(new, p) : p \in 0..i} = {At(old, p) : p \in 0..i}]_vars

\* The fourth element of a list of five is about to be put between two
\* elements of the sorted prefix.
BinaryInsertionWitness ==
    /\ InInsertion
    /\ Len(locals.data) = 5
    /\ locals.i = 3
    /\ InsertionPos(locals) = 1
    /\ locals.data # data


InBitonic == locals.method = "BitonicSort"

PowersOfTwo == {2 ^ e : e \in 0..(MaxStepRecords + 1)}

\* C25: the padding entry of bitonic_sort is greater than every key of the
\* list, whose years are 0 or from 1900 to 2099; the list is padded to a
\* power of two, the least one that is not below n; when the network has
\* run the padding entries stand at the positions n..m-1 and nowhere else,
\* and the list cut to its first n entries holds the keys and no padding.
BitonicSentinelLast ==
    InBitonic =>
        /\ \A p \in 1..Len(data) :
              /\ data[p][1] \in {0} \cup (1900..2099)
              /\ TupleLess(data[p], max_item)
        /\ locals.phase = "sorted" =>
              LET m == Len(locals.data)
              IN  /\ m \in PowersOfTwo
                  /\ m >= locals.n
                  /\ locals.n >= 1 => m \div 2 < locals.n
                  /\ \A p \in 0..(m - 1) :
                        (At(locals.data, p) = max_item) <=> (p >= locals.n)
        /\ locals.phase = "done" =>
              /\ Len(locals.data) = locals.n
              /\ {locals.data[p] : p \in 1..Len(locals.data)}
                    = {data[p] : p \in 1..Len(data)}

\* The network has run on five keys and three padding entries; a key of the
\* year 2099 with a title greater than 'zzzzz' stood first.
BitonicSentinelWitness ==
    /\ InBitonic
    /\ locals.phase = "sorted"
    /\ locals.n = 5
    /\ Len(locals.data) = 8
    /\ data[1][1] = 2099
    /\ StrLess(max_item[2], data[1][2])
    /\ \E p \in 1..5 : data[p][1] = 0


InTree == locals.method = "TreeSort"

\* The keys a tree holds.
RECURSIVE TreeKeys(_)
TreeKeys(root) ==
    IF Len(root) = 0 THEN {} ELSE {root[1]} \cup TreeKeys(root[2]) \cup TreeKeys(root[3])

\* At every node the left subtree holds smaller keys only and the right
\* subtree holds keys that are not smaller.
RECURSIVE IsSearchTree(_)
IsSearchTree(root) ==
    \/ Len(root) = 0
    \/ /\ \A key \in TreeKeys(root[2]) : TupleLess(key, root[1])
       /\ \A key \in TreeKeys(root[3]) : TupleLessEq(root[1], key)
       /\ IsSearchTree(root[2])
       /\ IsSearchTree(root[3])

\* The number of nodes of a tree.
RECURSIVE TreeSize(_)
TreeSize(root) ==
    IF Len(root) = 0 THEN 0 ELSE 1 + TreeSize(root[2]) + TreeSize(root[3])

\* C26: tree_sort inserts the keys one by one in the order of the list; on
\* its way down a key goes to the left of a node only if it is smaller than
\* the node's key, and to the right otherwise; after every insertion the
\* tree is a search tree (smaller keys left, not smaller keys right) of the
\* keys inserted so far; the in-order traversal gives all n keys ascending.
TreeSortSearchTree ==
    /\ [](InTree =>
             /\ IsSearchTree(locals.root)
             /\ TreeSize(locals.root) = locals.item - 1
             /\ TreeKeys(locals.root) = {locals.data[p] : p \in 1..(locals.item - 1)})
    /\ [][(InTree /\ InTree') =>
             LET val == locals.data[locals.item]
             IN  /\ locals'.data = locals.data
                 /\ \/ /\ locals'.item = locals.item
                       /\ Len(locals'.path) = Len(locals.path) + 1
                       /\ SubSeq(locals'.path, 1, Len(locals.path)) = locals.path
                       /\ LET node == NodeAt(locals.root, locals.path)
                              went == locals'.path[Len(locals'.path)]
                          IN  /\ Len(node) > 0
                              /\ TupleLess(val, node[1]) => went = 2
                              /\ ~TupleLess(val, node[1]) => went = 3
                    \/ /\ locals'.item = locals.item + 1
                       /\ NodeAt(locals.root, locals.path) = Nil
                       /\ NodeAt(locals'.root, locals.path) = TreeNode(val)
                       /\ TreeKeys(locals'.root) = TreeKeys(locals.root) \cup {val}]_vars
    /\ [](side = "returned" =>
             /\ Len(sorted_data) = Len(data)
             /\ {sorted_data[p] : p \in 1..Len(sorted_data)} = {data[p] : p \in 1..Len(data)}
             /\ \A p \in 1..(Len(sorted_data) - 1) :
                   TupleLess(sorted_data[p], sorted_data[p + 1]))

\* Five keys are in the tree; the root has a left and a right child, and one
\* key stands two levels below the root.
TreeSortWitness ==
    /\ InTree
    /\ locals.item = 6
    /\ Len(locals.root) > 0
    /\ Len(locals.root[2]) > 0
    /\ Len(locals.root[3]) > 0
    /\ TraversalDepth(locals.root) >= 4


\* The original_index values of a key list, in its order.
Indices(list) == [p \in 1..Len(list) |-> list[p][3]]

\* The method that has run.
MethodCalled == CHOOSE name \in AlgorithmNames : calls[name] > 0

\* C27: on every file, also one with rows of equal (year, title), each of
\* the twelve methods gives the same sequence of original_index values as
\* the eleven others, and in it rows of equal (year, title) stand in
\* ascending original_index.
StableAgreement ==
    side = "returned" =>
        /\ \A other \in AlgorithmNames :
              ~ReturnsCopy(other, data) => Indices(sorted_data) = Indices(SortWork(other, data))
        /\ {sorted_data[p] : p \in 1..Len(sorted_data)} = {data[p] : p \in 1..Len(data)}
        /\ \A p \in 1..(Len(sorted_data) - 1) :
              LET a == sorted_data[p]
                  b == sorted_data[p + 1]
              IN  /\ ~KeyLess("year_title", b, a)
                  /\ (a[1] = b[1] /\ a[2] = b[2]) => a[3] < b[3]

\* Heap sort has run on three rows, the first and the last of which have the
\* same year and title.
StableAgreementWitness ==
    /\ side = "returned"
    /\ MethodCalled = "HeapSort"
    /\ Len(data) = 3
    /\ data[1][1] = data[3][1]
    /\ data[1][2] = data[3][2]
    /\ data[2][1] < data[1][1]


InScrape == locals.method = "scrape_all"

\* C28: scrape_all returns, whatever the requests come to: the articles
\* wanted have been collected, or a batch had no articles, or three requests
\* in a row have failed.
ScrapeTerminates == <>(side = "returned")

\* The outcome of the request that has just been made.
LastOutcome(l) == l.log[Len(l.log)]

\* scrape_all returns unless requests fail with 401 or 403 again and again.
ScrapeTerminatesUnlessAuth ==
    \/ <>(side = "returned")
    \/ []<>(side = "scraping" /\ Len(locals.log) > 0 /\ LastOutcome(locals) = "auth")


\* C29: in scrape_all a request that fails leaves all_articles and offset
\* as they are, so that the next request asks for the same offset; offset
\* moves on, by the size asked for, only with a batch that has articles;
\* every such batch sets consecutive_errors to 0; and the loop is left with
\* articles still wanted only after a batch without articles or after three
\* requests in a row that failed.
FailedRequestFrame ==
    /\ [][(InScrape /\ InScrape' /\ locals' # locals) =>
             LET outcome == LastOutcome(locals')
             IN  /\ outcome \in {"network", "auth", "other", "empty"} =>
                       /\ locals'.all_articles = locals.all_articles
                       /\ locals'.offset = locals.offset
                 /\ locals'.offset # locals.offset =>
                       /\ outcome = "batch"
                       /\ locals'.offset = locals.offset + CurrentBatchSize(locals)
                       /\ Len(locals'.all_articles) > Len(locals.all_articles)
                 /\ outcome = "batch" =>
                       /\ locals'.consecutive_errors = 0
                       /\ \A p \in (Len(locals.all_articles) + 1)..Len(locals'.all_articles) :
                             locals'.all_articles[p][1] = locals.offset]_vars
    /\ [](/\ InScrape
          /\ side = "returned"
          /\ Len(locals.all_articles) < locals.target_results
          /\ ~(Len(locals.log) > 0 /\ LastOutcome(locals) = "empty")
          => /\ locals.consecutive_errors = max_consecutive_errors
             /\ Len(locals.log) = max_consecutive_errors
             /\ \A p \in 1..Len(locals.log) : locals.log[p] \in {"network", "other"})

\* Two requests have failed since a batch of articles came in, and a third
\* failure would end the loop.
FailedRequestWitness ==
    /\ InScrape
    /\ side = "scraping"
    /\ locals.offset > 0
    /\ Len(locals.all_articles) > 0
    /\ locals.consecutive_errors = 2
    /\ locals.log = <<"batch", "network", "other">>


\* C30: when load_data and then clean_data have run, original_count is the
\* number of records loaded and equals clean_count + empty_titles_removed +
\* duplicates_removed; clean_count is the number of records of the clean
\* frame, empty_titles_removed the number of records whose cleaned title is
\* empty, duplicates_removed the number of entries of duplicate_info; and
\* clean_data leaves df_original as it was.
CleaningStatsBalance ==
    /\ [](side \in {"cleaned", "returned"} =>
             /\ cleaning_stats.original_count = Len(df_original)
             /\ cleaning_stats.original_count =
                   cleaning_stats.clean_count + cleaning_stats.empty_titles_removed
                       + cleaning_stats.duplicates_removed
             /\ cleaning_stats.clean_count = Len(df_clean)
             /\ cleaning_stats.empty_titles_removed =
                   Cardinality({p \in 1..Len(df_original) :
                                   Strip(clean_text(df_original[p].title)) = <<>>})
             /\ cleaning_stats.duplicates_removed = Cardinality(DOMAIN duplicate_info))
    /\ [][df_original' = df_original]_vars

\* A file of four records has been cleaned: one had no title, one was a
\* duplicate, two are left.
CleaningStatsWitness ==
    /\ side = "cleaned"
    /\ cleaning_stats.original_count = 4
    /\ cleaning_stats.empty_titles_removed = 1
    /\ cleaning_stats.duplicates_removed = 1
    /\ cleaning_stats.clean_count = 2
    /\ \E p \in 1..4 : IsNa(df_original[p].title)

====
